---- MODULE Spec2Model ----
(***************************************************************************)
(* gptrepl: the session engine (App.appMain), its command handlers, the    *)
(* context store, the completion exchange with retries, and the autosave   *)
(* mirror.                                                                 *)
(*                                                                         *)
(* A Go string is modelled as a sequence of one-character strings, so that *)
(* strings.TrimSpace, strings.Cut and strconv.ParseInt are computed        *)
(* character by character.  An error value is a sequence of strings        *)
(* (the wrapping chain, outermost first); the nil error is <<>>.           *)
(***************************************************************************)
EXTENDS Integers, Sequences, FiniteSets, TLC

VARIABLES
    context,                \* App.context
    model,                  \* App.model
    autosaveFilePath,       \* App.autosaveFilePath
    forgetful,              \* App.forgetful
    slashCommandsDisabled,  \* App.slashCommandsDisabled
    maxRetries,             \* App.maxRetries
    fs,                     \* the files the program reads and writes, by path
    exited,                 \* the process has ended: EOF on the reader, or os.Exit
    blocked,                \* the session thread waits on a channel nobody feeds
    last,                   \* what the latest call of appMain did (history)
    twin,                   \* a second App given the same inputs (paired sessions)
    remote,                 \* what stream.Recv of the service is still to return
    out,                    \* the channel SendContext hands to its caller
    producer,               \* the goroutine SendContext starts
    consumer,               \* printAndCollectStream, receive by receive
    flags                   \* the command line, while the start-up is examined

vars == <<context, model, autosaveFilePath, forgetful, slashCommandsDisabled,
          maxRetries, fs, exited, blocked, last, twin,
          remote, out, producer, consumer, flags>>

(***************************************************************************)
(* Bounds of the model.                                                    *)
(***************************************************************************)
MaxCtxLen == 4
MaxEditLen == 3
MaxRetriesBound == 1
MaxRetryCount == 3
MaxFragments == 34
MaxDrainLen == 3
MaxCtxFlags == 2
MaxBackoffRetries == 4
TicksPerSecond == 12

\* uint and int64 have 64 bits in the program; the integers of TLC have 32, so
\* the model keeps the conversion between them and narrows the words to 31
\* bits: SignBit, 2^30, stands for 2^63, the top bit of the word
SignBit == 1073741824

(***************************************************************************)
(* Strings.                                                                *)
(***************************************************************************)
Nil == <<>>

IsSpace(c) == c \in {" ", "\t", "\n", "\r"}

RECURSIVE TrimLeft(_)
TrimLeft(s) ==
    IF s # <<>> /\ IsSpace(Head(s)) THEN TrimLeft(Tail(s)) ELSE s

RECURSIVE TrimRight(_)
TrimRight(s) ==
    IF s # <<>> /\ IsSpace(s[Len(s)])
    THEN TrimRight(SubSeq(s, 1, Len(s) - 1))
    ELSE s

TrimSpace(s) == TrimRight(TrimLeft(s))

\* strings.Cut(s, sep) for a one-character separator
Cut(s, sep) ==
    IF \E i \in 1..Len(s) : s[i] = sep
    THEN LET i == CHOOSE k \in 1..Len(s) :
                      s[k] = sep /\ \A j \in 1..(k - 1) : s[j] # sep
         IN  [before |-> SubSeq(s, 1, i - 1),
              after  |-> SubSeq(s, i + 1, Len(s)),
              found  |-> TRUE]
    ELSE [before |-> s, after |-> <<>>, found |-> FALSE]

DigitChars == <<"0", "1", "2", "3", "4", "5", "6", "7", "8", "9">>

IsDigit(c) == \E d \in 1..10 : DigitChars[d] = c

DigitVal(c) == (CHOOSE d \in 1..10 : DigitChars[d] = c) - 1

RECURSIVE DigitsValue(_, _)
DigitsValue(s, acc) ==
    IF s = <<>> THEN acc
    ELSE DigitsValue(Tail(s), acc * 10 + DigitVal(Head(s)))

MaxInt32 == 2147483647

\* strconv.ParseInt(s, 10, 32): an optional sign, then one or more decimal
\* digits; the value must fit 32 bits.
ParseInt(s) ==
    LET signed == s # <<>> /\ Head(s) \in {"+", "-"}
        neg    == s # <<>> /\ Head(s) = "-"
        digits == IF signed THEN Tail(s) ELSE s
    IN  IF digits = <<>> \/ \E i \in 1..Len(digits) : ~IsDigit(digits[i])
        THEN [n |-> 0, err |-> <<"strconv.ParseInt: invalid syntax">>]
        ELSE IF Len(digits) > 9
        THEN [n |-> 0, err |-> <<"strconv.ParseInt: value out of range">>]
        ELSE LET v == DigitsValue(digits, 0)
                 n == IF neg THEN 0 - v ELSE v
             IN  IF n > MaxInt32 \/ n < (0 - MaxInt32) - 1
                 THEN [n |-> 0, err |-> <<"strconv.ParseInt: value out of range">>]
                 ELSE [n |-> n, err |-> Nil]

(***************************************************************************)
(* Messages and roles.                                                     *)
(***************************************************************************)
RoleUser == <<"u", "s", "e", "r">>
RoleAssistant == <<"a", "s", "s", "i", "s", "t", "a", "n", "t">>
RoleSystem == <<"s", "y", "s", "t", "e", "m">>

Message(role, content) == [Role |-> role, Content |-> content]

\* mutant: the role check accepts every role
isRoleValid_AcceptsAny(role) == TRUE

isRoleValid(role) ==
    role = RoleUser \/ role = RoleAssistant \/ role = RoleSystem

(***************************************************************************)
(* Persistence: encoding/json as used by writeContextFile and              *)
(* parseContextFile.  A JSON string is a sequence of tokens, one per       *)
(* character: the character itself or its escape.                          *)
(***************************************************************************)
BadByte == "\\xff"        \* a byte that is not valid UTF-8
RuneError == "U+FFFD"     \* the Unicode replacement character

\* json.Marshal of one character of a string (HTML escaping is on)
EncodeChar(c) ==
    CASE c = "\"" -> "\\\""
      [] c = "\\" -> "\\\\"
      [] c = "\n" -> "\\n"
      [] c = "\r" -> "\\r"
      [] c = "\t" -> "\\t"
      [] c = "<"  -> "\\u003c"
      [] c = ">"  -> "\\u003e"
      [] c = "&"  -> "\\u0026"
      [] c = BadByte -> "\\ufffd"
      [] OTHER -> c

\* json.Unmarshal of one token of a string
DecodeToken(t) ==
    CASE t = "\\\"" -> "\""
      [] t = "\\\\" -> "\\"
      [] t = "\\/"  -> "/"
      [] t = "\\n"  -> "\n"
      [] t = "\\r"  -> "\r"
      [] t = "\\t"  -> "\t"
      [] t = "\\u003c" -> "<"
      [] t = "\\u003e" -> ">"
      [] t = "\\u0026" -> "&"
      [] t = "\\ufffd" -> RuneError
      [] t = BadByte -> RuneError
      [] OTHER -> t

EncodeString(s) == [i \in 1..Len(s) |-> EncodeChar(s[i])]

DecodeString(ts) == [i \in 1..Len(ts) |-> DecodeToken(ts[i])]

\* json.MarshalIndent(context, "", "\t")
MarshalIndent(ctx) ==
    [i \in 1..Len(ctx) |->
        [role |-> EncodeString(ctx[i].Role), content |-> EncodeString(ctx[i].Content)]]

\* json.Unmarshal(data, &unmarshaled) of a well-formed document
Unmarshal(records) ==
    [i \in 1..Len(records) |->
        Message(DecodeString(records[i].role), DecodeString(records[i].content))]

NoFile == [exists |-> FALSE, wellformed |-> FALSE, records |-> <<>>]

JsonFile(records) == [exists |-> TRUE, wellformed |-> TRUE, records |-> records]

GarbageFile == [exists |-> TRUE, wellformed |-> FALSE, records |-> <<>>]

PathP == <<"P">>    \* a writable path, no file there at first
PathF == <<"F">>    \* a saved context
PathG == <<"G">>    \* a document whose third entry has the role "narrator"
PathM == <<"M">>    \* a file that is not a JSON document
PathB == <<"B">>    \* a path in a directory that does not exist

Paths == {PathP, PathF, PathG, PathM, PathB}

\* os.ReadFile succeeds
Readable(files, path) == path \in DOMAIN files /\ files[path].exists

\* os.WriteFile succeeds
Writable(files, path) == path \in DOMAIN files /\ path # PathB

\* mutant: the error names the last entry with an invalid role
parseContextFile_LastInvalid(files, path) ==
    IF ~Readable(files, path)
    THEN [messages |-> <<>>, err |-> <<"open: no such file or directory">>]
    ELSE IF ~files[path].wellformed
    THEN [messages |-> <<>>, err |-> <<"json: invalid character">>]
    ELSE LET unmarshaled == Unmarshal(files[path].records)
             bad == {i \in 1..Len(unmarshaled) : ~isRoleValid(unmarshaled[i].Role)}
         IN  IF bad # {}
             THEN LET idx == (CHOOSE i \in bad : \A j \in bad : i >= j) - 1
                  IN  [messages |-> <<>>,
                       err |-> <<"message has an invalid role attribute", ToString(idx)>>]
             ELSE [messages |-> unmarshaled, err |-> Nil]

parseContextFile(files, path) ==
    IF ~Readable(files, path)
    THEN [messages |-> <<>>, err |-> <<"open: no such file or directory">>]
    ELSE IF ~files[path].wellformed
    THEN [messages |-> <<>>, err |-> <<"json: invalid character">>]
    ELSE LET unmarshaled == Unmarshal(files[path].records)
             bad == {i \in 1..Len(unmarshaled) : ~isRoleValid(unmarshaled[i].Role)}
         IN  IF bad # {}
             THEN LET idx == (CHOOSE i \in bad : \A j \in bad : i <= j) - 1
                  IN  [messages |-> <<>>,
                       err |-> <<"message has an invalid role attribute", ToString(idx)>>]
             ELSE [messages |-> unmarshaled, err |-> Nil]

writeContextFile(files, path, ctx) ==
    IF Writable(files, path)
    THEN [files |-> [files EXCEPT ![path] = JsonFile(MarshalIndent(ctx))], err |-> Nil]
    ELSE [files |-> files, err |-> <<"open: no such file or directory">>]

(***************************************************************************)
(* The printer: what one call of appMain printed, in order.                *)
(***************************************************************************)
PrintInfo(a, text) == [a EXCEPT !.printer = Append(@, [kind |-> "info", text |-> text])]

PrintWarning(a, text) == [a EXCEPT !.printer = Append(@, [kind |-> "warning", text |-> text])]

PrintError(a, text) == [a EXCEPT !.printer = Append(@, [kind |-> "error", text |-> text])]

(***************************************************************************)
(* The context store.  `a` is the App with its collaborators: the files,   *)
(* the printer's output, the completion API and the text editor.           *)
(***************************************************************************)
\* mutant: a failed write ends the program, as a failed load does in parseFlags
tryUpdateAutosaveFile_ExitsOnFailure(a) ==
    IF a.autosaveFilePath = <<>> THEN a
    ELSE LET w == writeContextFile(a.fs, a.autosaveFilePath, a.context)
             b == [a EXCEPT !.fs = w.files, !.writes = Append(@, a.autosaveFilePath)]
         IN  IF w.err # Nil
             THEN [PrintError(b, <<"failed to write to file">> \o w.err)
                      EXCEPT !.exited = TRUE, !.exitCode = 1]
             ELSE b

tryUpdateAutosaveFile(a) ==
    IF a.autosaveFilePath = <<>> THEN a
    ELSE LET w == writeContextFile(a.fs, a.autosaveFilePath, a.context)
             b == [a EXCEPT !.fs = w.files, !.writes = Append(@, a.autosaveFilePath)]
         IN  IF w.err # Nil
             THEN PrintError(b, <<"failed to write to file">> \o w.err)
             ELSE b

\* mutant: the append forgets the autosave refresh
appendToContext_NoRefresh(a, msg) == [a EXCEPT !.context = Append(@, msg)]

appendToContext(a, msg) ==
    tryUpdateAutosaveFile([a EXCEPT !.context = Append(@, msg)])

\* mutant: the pop removes the first n messages instead of the last n
popFromContext_FromFront(a, n) ==
    IF n < 1
    THEN [app |-> a, err |-> <<"n must be at least 1">>]
    ELSE IF n > Len(a.context)
    THEN [app |-> a, err |-> <<"can't pop elements from the context">>]
    ELSE [app |-> tryUpdateAutosaveFile(
                     [a EXCEPT !.context = SubSeq(@, n + 1, Len(@))]),
          err |-> Nil]

\* mutant: the pop forgets the autosave refresh
popFromContext_NoRefresh(a, n) ==
    IF n < 1
    THEN [app |-> a, err |-> <<"n must be at least 1">>]
    ELSE IF n > Len(a.context)
    THEN [app |-> a, err |-> <<"can't pop elements from the context">>]
    ELSE [app |-> [a EXCEPT !.context = SubSeq(@, 1, Len(@) - n)], err |-> Nil]

popFromContext(a, n) ==
    IF n < 1
    THEN [app |-> a, err |-> <<"n must be at least 1">>]
    ELSE IF n > Len(a.context)
    THEN [app |-> a, err |-> <<"can't pop elements from the context">>]
    ELSE [app |-> tryUpdateAutosaveFile(
                     [a EXCEPT !.context = SubSeq(@, 1, Len(@) - n)]),
          err |-> Nil]

(***************************************************************************)
(* The completion API.  a.attempts is what the service answers to the      *)
(* coming calls of SendContext, one entry per call: Nil, or the error of   *)
(* CreateChatCompletionStream.  a.stream is what the producer goroutine    *)
(* puts in the channel before it closes it.                                *)
(***************************************************************************)
EOF == <<"EOF">>

Delta(text) == [delta |-> text, err |-> Nil]

DeltaErr(err) == [delta |-> <<>>, err |-> err]

\* errors.Is(err, target): target is err or is wrapped by it
ErrorsIs(err, target) ==
    /\ Len(err) >= Len(target)
    /\ SubSeq(err, Len(err) - Len(target) + 1, Len(err)) = target

\* a channel with the values it delivers before it is closed, and the nil
\* channel, the zero value of `var stream <-chan CompletionDelta`
Chan(values) == [nil |-> FALSE, values |-> values]

NilChan == [nil |-> TRUE, values |-> <<>>]

SendContext(a) ==
    LET outcome == Head(a.attempts)
        b == [a EXCEPT !.attempts = Tail(@), !.calls = Append(@, a.context),
                       !.models = Append(@, a.model)]
    IN  IF outcome # Nil
        THEN [app |-> b, stream |-> NilChan,
              err |-> <<"CreateChatCompletionStream">> \o outcome]
        ELSE [app |-> b, stream |-> Chan(a.stream), err |-> Nil]

\* the loop of printAndCollectStream; a.received counts its receives
\* mutant: an error marker returns what was collected so far
RECURSIVE collectStream_KeepsPartial(_, _, _)
collectStream_KeepsPartial(a, stream, collect) ==
    IF stream = <<>> \/ ErrorsIs(Head(stream).err, EOF)
    THEN [app |-> PrintInfo([a EXCEPT !.received = @ + 1], <<"\n">>),
          text |-> collect, err |-> Nil]
    ELSE IF Head(stream).err # Nil
    THEN [app |-> [a EXCEPT !.received = @ + 1], text |-> collect,
          err |-> Head(stream).err]
    ELSE collectStream_KeepsPartial(
             PrintInfo([a EXCEPT !.received = @ + 1], Head(stream).delta),
             Tail(stream), collect \o Head(stream).delta)

RECURSIVE collectStream(_, _, _)
collectStream(a, stream, collect) ==
    IF stream = <<>> \/ ErrorsIs(Head(stream).err, EOF)
    THEN [app |-> PrintInfo([a EXCEPT !.received = @ + 1], <<"\n">>),
          text |-> collect, err |-> Nil]
    ELSE IF Head(stream).err # Nil
    THEN [app |-> [a EXCEPT !.received = @ + 1], text |-> <<>>,
          err |-> Head(stream).err]
    ELSE collectStream(PrintInfo([a EXCEPT !.received = @ + 1], Head(stream).delta),
                       Tail(stream), collect \o Head(stream).delta)

\* a receive from the nil channel blocks forever
printAndCollectStream(a, stream) ==
    IF stream.nil
    THEN [app |-> [a EXCEPT !.blocked = TRUE], text |-> <<>>, err |-> Nil]
    ELSE collectStream(a, stream.values, <<>>)

\* the wait of the retry loop is a float64 of seconds; the model keeps it in
\* ticks, TicksPerSecond to the second
waitTimeMultiplier == 2

\* mutant: the wait is not multiplied
backOff_NoGrowth(a) ==
    [a EXCEPT !.sleeps = @ + 1,
              !.waits = Append(@, a.waitTime \div TicksPerSecond),
              !.waitTime = @ + Head(a.jitter),
              !.jitter = Tail(@)]

\* the body of the retry loop after a failed attempt: time.Sleep of
\* time.Duration(waitTime) seconds (the conversion drops the fraction), then
\* waitTime *= waitTimeMultiplier and waitTime += rand.Float64() / 3, the
\* head of a.jitter
backOff(a) ==
    [a EXCEPT !.sleeps = @ + 1,
              !.waits = Append(@, a.waitTime \div TicksPerSecond),
              !.waitTime = @ * waitTimeMultiplier + Head(a.jitter),
              !.jitter = Tail(@)]

\* mutant: the loop sleeps after every failed attempt, the last one included
RECURSIVE establish_SleepsAfterLast(_, _)
establish_SleepsAfterLast(a, retries) ==
    IF retries < 0 THEN [app |-> a, stream |-> NilChan, err |-> Nil]
    ELSE LET r == SendContext(a)
         IN  IF r.err # Nil /\ retries > 0
             THEN establish_SleepsAfterLast(backOff(r.app), retries - 1)
             ELSE IF r.err # Nil
             THEN [r EXCEPT !.app = backOff(r.app)]
             ELSE r

\* mutant: the error of the first failed attempt is kept, not that of the last
RECURSIVE establish_FirstError(_, _)
establish_FirstError(a, retries) ==
    IF retries < 0 THEN [app |-> a, stream |-> NilChan, err |-> Nil]
    ELSE LET r == SendContext(a)
         IN  IF r.err # Nil /\ retries > 0
             THEN [establish_FirstError(backOff(r.app), retries - 1)
                      EXCEPT !.err = IF @ # Nil THEN r.err ELSE @]
             ELSE r

\* int64(u) of a uint u: two's complement, the top bit becomes the sign
Int64(u) == IF u >= SignBit THEN (u - SignBit) - SignBit ELSE u

\* the retry loop of sendContextAndProcessResponse: `for retries >= 0`, with
\* stream and err at their zero values when the body never runs
RECURSIVE establish(_, _)
establish(a, retries) ==
    IF retries < 0 THEN [app |-> a, stream |-> NilChan, err |-> Nil]
    ELSE LET r == SendContext(a)
         IN  IF r.err # Nil /\ retries > 0
             THEN establish(backOff(r.app), retries - 1)
             ELSE r

\* mutant: the collected text is dropped on success as it is on failure
streamResult_DropsText(c) ==
    IF c.err # Nil
    THEN [app |-> c.app, text |-> <<>>, err |-> <<"stream error">> \o c.err]
    ELSE [app |-> c.app, text |-> <<>>, err |-> Nil]

\* sendContextAndProcessResponse, after the stream was drained into c
streamResult(c) ==
    IF c.err # Nil
    THEN [app |-> c.app, text |-> <<>>, err |-> <<"stream error">> \o c.err]
    ELSE [app |-> c.app, text |-> c.text, err |-> Nil]

\* mutant: a stream that ends in an error is asked for once more
processResponse_AsksAgain(r) ==
    IF r.err # Nil
    THEN [app |-> r.app, text |-> <<>>,
          err |-> <<"failed to send context">> \o r.err]
    ELSE IF printAndCollectStream(r.app, r.stream).err # Nil /\ r.app.attempts # <<>>
    THEN streamResult(printAndCollectStream(
             SendContext(printAndCollectStream(r.app, r.stream).app).app, r.stream))
    ELSE streamResult(printAndCollectStream(r.app, r.stream))

\* sendContextAndProcessResponse, after the retry loop ended with r
processResponse(r) ==
    IF r.err # Nil
    THEN [app |-> r.app, text |-> <<>>,
          err |-> <<"failed to send context">> \o r.err]
    ELSE streamResult(printAndCollectStream(r.app, r.stream))

sendContextAndProcessResponse(a) ==
    processResponse(establish([a EXCEPT !.waitTime = TicksPerSecond],
                              Int64(a.maxRetries)))

(***************************************************************************)
(* The command handlers.  Each returns the App and the handler's error.    *)
(***************************************************************************)
Name_help == <<"h", "e", "l", "p">>
Name_save == <<"s", "a", "v", "e">>
Name_replacefrom == <<"r", "e", "p", "l", "a", "c", "e", "f", "r", "o", "m">>
Name_appendfrom == <<"a", "p", "p", "e", "n", "d", "f", "r", "o", "m">>
Name_prependfrom == <<"p", "r", "e", "p", "e", "n", "d", "f", "r", "o", "m">>
Name_clear == <<"c", "l", "e", "a", "r">>
Name_print == <<"p", "r", "i", "n", "t">>
Name_append == <<"a", "p", "p", "e", "n", "d">>
Name_prepend == <<"p", "r", "e", "p", "e", "n", "d">>
Name_model == <<"m", "o", "d", "e", "l">>
Name_pop == <<"p", "o", "p">>
Name_escape == <<"e", "s", "c", "a", "p", "e">>
Name_nano == <<"n", "a", "n", "o">>
Name_ns == <<"n", "s">>
Name_send == <<"s", "e", "n", "d">>
Name_autosave == <<"a", "u", "t", "o", "s", "a", "v", "e">>
Name_exit == <<"e", "x", "i", "t">>

\* the keys of App.commandHandlers (a Go map: its iteration order is not fixed)
CommandNames ==
    <<Name_help, Name_save, Name_replacefrom, Name_appendfrom, Name_prependfrom,
      Name_clear, Name_print, Name_append, Name_prepend, Name_model, Name_pop,
      Name_escape, Name_nano, Name_ns, Name_send, Name_autosave, Name_exit>>

Registered(name) == \E i \in 1..Len(CommandNames) : CommandNames[i] = name

ErrExpectNoArguments == <<"expected no arguments">>

Ok(a) == [app |-> a, err |-> Nil]

Fail(a, err) == [app |-> a, err |-> err]

parseSingleIntegerFromArguments(args, defaultValue) ==
    IF args = <<>> THEN [n |-> defaultValue, err |-> Nil]
    ELSE ParseInt(args)

\* mutant: the arguments are split on their last space
parseSingleMessageFromArguments_LastSpace(args) ==
    IF args = <<>>
    THEN [role |-> <<>>, msg |-> <<>>, err |-> <<"expected two arguments">>]
    ELSE LET i == IF \E k \in 1..Len(args) : args[k] = " "
                  THEN CHOOSE k \in 1..Len(args) :
                           args[k] = " " /\ \A j \in (k + 1)..Len(args) : args[j] # " "
                  ELSE Len(args) + 1
             c == [before |-> SubSeq(args, 1, i - 1),
                   after |-> SubSeq(args, i + 1, Len(args))]
         IN  IF ~isRoleValid(c.before)
             THEN [role |-> <<>>, msg |-> <<>>, err |-> <<"invalid role">> \o c.before]
             ELSE [role |-> c.before, msg |-> c.after, err |-> Nil]

parseSingleMessageFromArguments(args) ==
    IF args = <<>>
    THEN [role |-> <<>>, msg |-> <<>>, err |-> <<"expected two arguments">>]
    ELSE LET c == Cut(args, " ")
         IN  IF ~isRoleValid(c.before)
             THEN [role |-> <<>>, msg |-> <<>>, err |-> <<"invalid role">> \o c.before]
             ELSE [role |-> c.before, msg |-> c.after, err |-> Nil]

readContextFileFromArguments(a, args) ==
    IF args = <<>>
    THEN [messages |-> <<>>, err |-> <<"exactly one argument required (path to JSON file)">>]
    ELSE parseContextFile(a.fs, args)

RECURSIVE printHelp(_, _)
printHelp(a, i) ==
    IF i > Len(CommandNames) THEN a
    ELSE printHelp(PrintInfo(a, <<"/">> \o CommandNames[i]), i + 1)

helpCommand(a, args) ==
    LET b == IF args # <<>>
             THEN PrintWarning(a, <<"This command takes no arguments. Showing help anyways">>)
             ELSE a
    IN  Ok(printHelp(b, 1))

\* mutant: save with no path writes the autosave file
saveCommand_DefaultsToAutosave(a, path) ==
    LET target == IF path = <<>> THEN a.autosaveFilePath ELSE path
        w == writeContextFile(a.fs, target, a.context)
    IN  IF target = <<>>
        THEN Fail(a, <<"exactly one argument required (path to JSON file)">>)
        ELSE [app |-> [a EXCEPT !.fs = w.files], err |-> w.err]

saveCommand(a, path) ==
    IF path = <<>>
    THEN Fail(a, <<"exactly one argument required (path to JSON file)">>)
    ELSE LET w == writeContextFile(a.fs, path, a.context)
         IN  [app |-> [a EXCEPT !.fs = w.files], err |-> w.err]

\* mutant: the load refreshes the autosave file
replaceFromCommand_Refreshes(a, path) ==
    LET r == readContextFileFromArguments(a, path)
    IN  IF r.err # Nil THEN Fail(a, r.err)
        ELSE Ok(tryUpdateAutosaveFile([a EXCEPT !.context = r.messages]))

replaceFromCommand(a, path) ==
    LET r == readContextFileFromArguments(a, path)
    IN  IF r.err # Nil THEN Fail(a, r.err)
        ELSE Ok([a EXCEPT !.context = r.messages])

appendFromCommand(a, path) ==
    LET r == readContextFileFromArguments(a, path)
    IN  IF r.err # Nil THEN Fail(a, r.err)
        ELSE Ok([a EXCEPT !.context = @ \o r.messages])

\* mutant: the loaded messages go behind Context
prependFromCommand_Appends(a, path) ==
    LET r == readContextFileFromArguments(a, path)
    IN  IF r.err # Nil THEN Fail(a, r.err)
        ELSE Ok([a EXCEPT !.context = @ \o r.messages])

prependFromCommand(a, path) ==
    LET r == readContextFileFromArguments(a, path)
    IN  IF r.err # Nil THEN Fail(a, r.err)
        ELSE Ok([a EXCEPT !.context = r.messages \o @])

\* mutant: clear ignores its argument
clearCommand_IgnoresArguments(a, args) ==
    Ok(tryUpdateAutosaveFile([a EXCEPT !.context = <<>>]))

\* mutant: clear leaves the autosave file as it is
clearCommand_NoRefresh(a, args) ==
    IF args # <<>> THEN Fail(a, ErrExpectNoArguments)
    ELSE Ok([a EXCEPT !.context = <<>>])

clearCommand(a, args) ==
    IF args # <<>> THEN Fail(a, ErrExpectNoArguments)
    ELSE Ok(tryUpdateAutosaveFile([a EXCEPT !.context = <<>>]))

RECURSIVE printMessages(_, _)
printMessages(a, i) ==
    IF i > Len(a.context) THEN a
    ELSE printMessages(
             PrintInfo(PrintInfo(a, <<"[">> \o a.context[i].Role \o <<"]">>),
                       a.context[i].Content),
             i + 1)

\* mutant: print stops after the warning
printCommand_StopsOnArguments(a, args) ==
    IF args # <<>>
    THEN Ok(PrintWarning(a, <<"this command takes no arguments. Printing context anyways">>))
    ELSE Ok(printMessages(a, 1))

printCommand(a, args) ==
    LET b == IF args # <<>>
             THEN PrintWarning(a, <<"this command takes no arguments. Printing context anyways">>)
             ELSE a
    IN  Ok(printMessages(b, 1))

appendCommand(a, args) ==
    LET p == parseSingleMessageFromArguments(args)
        msg == TrimSpace(p.msg)
        b == IF msg = <<>>
             THEN PrintWarning(a, <<"appending empty string to context">>)
             ELSE a
    IN  IF p.err # Nil THEN Fail(a, p.err)
        ELSE Ok(appendToContext(b, Message(p.role, msg)))

prependCommand(a, args) ==
    LET p == parseSingleMessageFromArguments(args)
        msg == TrimSpace(p.msg)
        b == IF msg = <<>>
             THEN PrintWarning(a, <<"prepending empty string to context">>)
             ELSE a
    IN  IF p.err # Nil THEN Fail(a, p.err)
        ELSE Ok([b EXCEPT !.context = <<Message(p.role, msg)>> \o @])

\* mutant: the model command checks its argument and changes nothing
modelCommand_KeepsModel(a, name) ==
    IF name = <<>>
    THEN Fail(a, <<"expected exactly one argument (the identifier of the model)">>)
    ELSE Ok(a)

modelCommand(a, name) ==
    IF name = <<>>
    THEN Fail(a, <<"expected exactly one argument (the identifier of the model)">>)
    ELSE Ok([a EXCEPT !.model = name])

\* mutant: the pop command defaults to one message
popCommand_DefaultOne(a, args) ==
    LET p == parseSingleIntegerFromArguments(args, 1)
    IN  IF p.err # Nil THEN Fail(a, p.err)
        ELSE popFromContext(a, p.n)

popCommand(a, args) ==
    LET p == parseSingleIntegerFromArguments(args, 2)
    IN  IF p.err # Nil THEN Fail(a, p.err)
        ELSE popFromContext(a, p.n)

\* the end of escapeCommand, sendCommand and nanoSendCommand: r is what
\* sendContextAndProcessResponse returned
\* mutant: the commands drop the exchange in forgetful mode, as a plain line does
storeResponse_Forgetful(r) ==
    IF r.app.blocked THEN Ok(r.app)
    ELSE IF r.err # Nil THEN Fail(r.app, r.err)
    ELSE IF r.app.forgetful /\ r.app.context # <<>>
    THEN Ok(popFromContext(r.app, 1).app)
    ELSE Ok(appendToContext(r.app, Message(RoleAssistant, r.text)))

storeResponse(r) ==
    IF r.app.blocked THEN Ok(r.app)     \* the call has not returned
    ELSE IF r.err # Nil THEN Fail(r.app, r.err)
    ELSE Ok(appendToContext(r.app, Message(RoleAssistant, r.text)))

\* mutant: escape with no text sends Context as it is
escapeCommand_SkipsEmpty(a, messageContent) ==
    IF messageContent = <<>>
    THEN storeResponse(sendContextAndProcessResponse(a))
    ELSE storeResponse(sendContextAndProcessResponse(
             appendToContext(a, Message(RoleUser, messageContent))))

escapeCommand(a, messageContent) ==
    storeResponse(sendContextAndProcessResponse(
        appendToContext(a, Message(RoleUser, messageContent))))

\* presentTextEditor: a.editor is what the editor run yields
presentTextEditor(a) == a.editor

nanoCommand(a, role) ==
    IF ~isRoleValid(role) THEN Fail(a, <<"invalid role">> \o role)
    ELSE LET e == presentTextEditor(a)
             content == TrimSpace(e.content)
         IN  IF e.err # Nil THEN Fail(a, e.err)
             ELSE IF content = <<>> THEN Fail(a, <<"no content in file">>)
             ELSE Ok(appendToContext(a, Message(role, content)))

\* mutant: send adds an empty user message first
sendCommand_AddsMessage(a, args) ==
    IF args # <<>> THEN Fail(a, ErrExpectNoArguments)
    ELSE storeResponse(sendContextAndProcessResponse(
             appendToContext(a, Message(RoleUser, <<>>))))

sendCommand(a, args) ==
    IF args # <<>> THEN Fail(a, ErrExpectNoArguments)
    ELSE storeResponse(sendContextAndProcessResponse(a))

nanoSendCommand(a, roleArg) ==
    LET role == IF roleArg = <<>> THEN RoleUser ELSE roleArg
    IN  IF ~isRoleValid(role) THEN Fail(a, <<"invalid role">> \o role)
        ELSE LET e == presentTextEditor(a)
                 content == TrimSpace(e.content)
             IN  IF e.err # Nil THEN Fail(a, e.err)
                 ELSE IF content = <<>> THEN Fail(a, <<"no content in file">>)
                 ELSE storeResponse(sendContextAndProcessResponse(
                          PrintInfo(appendToContext(a, Message(role, content)),
                                    content)))

\* mutant: the new path is kept only when the first write succeeds
autosaveCommand_KeepsOnSuccess(a, path) ==
    LET b == tryUpdateAutosaveFile([a EXCEPT !.autosaveFilePath = path])
    IN  IF path # <<>> /\ ~Writable(a.fs, path)
        THEN Ok([b EXCEPT !.autosaveFilePath = a.autosaveFilePath])
        ELSE Ok(b)

autosaveCommand(a, path) ==
    Ok(tryUpdateAutosaveFile([a EXCEPT !.autosaveFilePath = path]))

\* os.Exit ends the process: the handler does not return
exitCommand(a, code) ==
    LET p == parseSingleIntegerFromArguments(code, 0)
    IN  IF p.err # Nil THEN Fail(a, p.err)
        ELSE Ok([a EXCEPT !.exited = TRUE, !.exitCode = p.n])

\* command.fn(app, arguments) for the registered command of that name
CallCommand(name, a, args) ==
    CASE name = Name_help        -> helpCommand(a, args)
      [] name = Name_save        -> saveCommand(a, args)
      [] name = Name_replacefrom -> replaceFromCommand(a, args)
      [] name = Name_appendfrom  -> appendFromCommand(a, args)
      [] name = Name_prependfrom -> prependFromCommand(a, args)
      [] name = Name_clear       -> clearCommand(a, args)
      [] name = Name_print       -> printCommand(a, args)
      [] name = Name_append      -> appendCommand(a, args)
      [] name = Name_prepend     -> prependCommand(a, args)
      [] name = Name_model       -> modelCommand(a, args)
      [] name = Name_pop         -> popCommand(a, args)
      [] name = Name_escape      -> escapeCommand(a, args)
      [] name = Name_nano        -> nanoCommand(a, args)
      [] name = Name_ns          -> nanoSendCommand(a, args)
      [] name = Name_send        -> sendCommand(a, args)
      [] name = Name_autosave    -> autosaveCommand(a, args)
      [] name = Name_exit        -> exitCommand(a, args)

(***************************************************************************)
(* The session engine: one call of appMain.  rd is what reader.Readline()  *)
(* returns.                                                                *)
(***************************************************************************)
\* appMain, the command path: the line begins with "/" and commands are enabled
\* appMain, after the handler of commandName returned r
\* mutant: a command that fails ends the session
reportCommand_EndsOnError(commandName, r) ==
    [app |-> IF r.err # Nil
             THEN PrintError(r.app, commandName \o <<": ">> \o r.err)
             ELSE r.app,
     ret |-> r.err = Nil]

\* mutant: the error of a command handler is dropped
reportCommand_Silent(commandName, r) == [app |-> r.app, ret |-> TRUE]

reportCommand(commandName, r) ==
    [app |-> IF r.err # Nil
             THEN PrintError(r.app, commandName \o <<": ">> \o r.err)
             ELSE r.app,
     ret |-> TRUE]

\* mutant: an unknown command ends the session without a word
dispatchLine_UnknownEnds(a, line) ==
    LET c == Cut(line, " ")
        commandName == TrimSpace(Tail(c.before))
    IN  IF ~Registered(commandName)
        THEN [app |-> a, ret |-> FALSE]
        ELSE reportCommand(commandName,
                           CallCommand(commandName, a, TrimSpace(c.after)))

dispatchLine(a, line) ==
    LET c == Cut(line, " ")
        commandName == TrimSpace(Tail(c.before))
    IN  IF ~Registered(commandName)
        THEN [app |-> PrintError(a, <<"unknown command: ">> \o commandName),
              ret |-> TRUE]
        ELSE reportCommand(commandName,
                           CallCommand(commandName, a, TrimSpace(c.after)))

\* mutant: a failed exchange keeps the user message, as escapeCommand does
settleExchange_NoRetract(r) ==
    IF r.err # Nil
    THEN [app |-> PrintError(r.app, r.err \o <<"(no changes done to context)">>),
          ret |-> TRUE]
    ELSE IF r.app.forgetful
    THEN [app |-> popFromContext(r.app, 1).app, ret |-> TRUE]
    ELSE [app |-> appendToContext(r.app, Message(RoleAssistant, r.text)),
          ret |-> TRUE]

\* appMain, the exchange path, after sendContextAndProcessResponse returned r
settleExchange(r) ==
    IF r.app.blocked THEN [app |-> r.app, ret |-> TRUE]     \* has not returned
    ELSE IF r.err # Nil
    THEN [app |-> popFromContext(
                      PrintError(r.app, r.err \o <<"(no changes done to context)">>),
                      1).app,
          ret |-> TRUE]
    ELSE IF r.app.forgetful
    THEN [app |-> popFromContext(r.app, 1).app, ret |-> TRUE]
    ELSE [app |-> appendToContext(r.app, Message(RoleAssistant, r.text)),
          ret |-> TRUE]

\* mutant: a plain line is handled as the escape command handles its text,
\* whatever the forgetful flag says
askLine_AsEscape(a, line) ==
    [app |-> storeResponse(sendContextAndProcessResponse(
                 appendToContext(a, Message(RoleUser, line)))).app,
     ret |-> TRUE]

askLine(a, line) ==
    settleExchange(sendContextAndProcessResponse(
        appendToContext(a, Message(RoleUser, line))))

\* mutant: a reader error other than the end of input is reported
appMain_ReportsReadError(a, rd) ==
    IF rd.err # Nil
    THEN [app |-> IF rd.err = EOF THEN a ELSE PrintError(a, rd.err), ret |-> FALSE]
    ELSE LET line == TrimSpace(rd.line)
         IN  IF line = <<>> THEN [app |-> a, ret |-> TRUE]
             ELSE IF line[1] = "/" /\ ~a.slashCommandsDisabled
             THEN dispatchLine(a, line)
             ELSE askLine(a, line)

\* mutant: a line that starts with the slash is dispatched even when the
\* commands are disabled
appMain_AlwaysDispatches(a, rd) ==
    IF rd.err # Nil THEN [app |-> a, ret |-> FALSE]
    ELSE LET line == TrimSpace(rd.line)
         IN  IF line = <<>> THEN [app |-> a, ret |-> TRUE]
             ELSE IF line[1] = "/"
             THEN dispatchLine(a, line)
             ELSE askLine(a, line)

appMain(a, rd) ==
    IF rd.err # Nil THEN [app |-> a, ret |-> FALSE]
    ELSE LET line == TrimSpace(rd.line)
         IN  IF line = <<>> THEN [app |-> a, ret |-> TRUE]
             ELSE IF line[1] = "/" /\ ~a.slashCommandsDisabled
             THEN dispatchLine(a, line)
             ELSE askLine(a, line)

(***************************************************************************)
(* Session start: parseFlags.                                              *)
(***************************************************************************)
DefaultModel == <<"g", "p", "t", "-", "4">>

RECURSIVE addJsonCtx(_, _, _)
addJsonCtx(files, paths, ctx) ==
    IF paths = <<>> THEN [context |-> ctx, err |-> Nil]
    ELSE LET r == parseContextFile(files, Head(paths))
         IN  IF r.err # Nil THEN [context |-> ctx, err |-> r.err]
             ELSE addJsonCtx(files, Tail(paths), ctx \o r.messages)

\* mutant: the autosave file is loaded before the -ctx files
parseFlags_AutosaveFirst(files, ctxFlags, autosave, autosavePreventLoad) ==
    IF ~autosavePreventLoad /\ autosave # <<>> /\ Readable(files, autosave)
    THEN addJsonCtx(files, <<autosave>> \o ctxFlags, <<>>)
    ELSE addJsonCtx(files, ctxFlags, <<>>)

\* the -ctx flags in order, then the -autosave file when it exists
parseFlags(files, ctxFlags, autosave, autosavePreventLoad) ==
    LET c == addJsonCtx(files, ctxFlags, <<>>)
    IN  IF c.err # Nil THEN c
        ELSE IF ~autosavePreventLoad /\ autosave # <<>> /\ Readable(files, autosave)
        THEN addJsonCtx(files, <<autosave>>, c.context)
        ELSE c

(***************************************************************************)
(* The environment: the files at session start, the lines the reader       *)
(* yields, the answers of the completion service and of the text editor.   *)
(***************************************************************************)
InitialFiles ==
    [p \in Paths |->
        CASE p = PathF -> JsonFile(MarshalIndent(<<Message(RoleSystem, <<"a">>)>>))
          [] p = PathG -> JsonFile(MarshalIndent(
                              <<Message(RoleSystem, <<"a">>),
                                Message(RoleUser, <<"b">>),
                                Message(<<"n", "a", "r", "r", "a", "t", "o", "r">>, <<"c">>),
                                Message(<<"q">>, <<"d">>)>>))
          [] p = PathM -> GarbageFile
          [] OTHER -> NoFile]

\* the lines of a session that asks questions and takes answers back
AskLines ==
    {<<"b">>,
     <<" ", "b", " ">>,
     <<>>,
     <<" ", "\t">>,
     <<"/", "z", "z">>,
     <<"/", "P", "o", "p", " ", "1">>,
     <<"/", "p", "o", "p">>,
     <<"/", "p", "o", "p", " ", "1">>,
     <<"/", "p", "o", "p", " ", "3">>,
     <<"/", "p", "o", "p", " ", "0">>,
     <<"/", "p", "o", "p", " ", "-", "1">>,
     <<"/", "p", "o", "p", " ", "x">>,
     <<"/", "e", "s", "c", "a", "p", "e", " ", "b">>,
     <<"/", "p", "r", "e", "p", "e", "n", "d", " ", "s", "y", "s", "t", "e", "m", " ", "a">>}

\* the lines of a batch session, run with -nocommands
BatchLines ==
    {<<"b">>,
     <<"/", "p", "o", "p">>,
     <<>>}

\* the lines of a session that edits the context and loads files
EditLines ==
    {<<"b">>,
     <<>>,
     <<"/", "z", "z">>,
     <<"/", "p", "o", "p">>,
     <<"/", "p", "o", "p", " ", "1">>,
     <<"/", "e", "s", "c", "a", "p", "e", " ", "b">>,
     <<"/", "s", "e", "n", "d">>,
     <<"/", "n", "s">>,
     <<"/", "n", "s", " ", "q">>,
     <<"/", "n", "s", " ", "s", "y", "s", "t", "e", "m">>,
     <<"/", "n", "a", "n", "o", " ", "u", "s", "e", "r">>,
     <<"/", "n", "a", "n", "o", " ", "q">>,
     <<"/", "a", "p", "p", "e", "n", "d", " ", "u", "s", "e", "r", " ", "b">>,
     <<"/", "a", "p", "p", "e", "n", "d", " ", "q", " ", "b">>,
     <<"/", "a", "p", "p", "e", "n", "d">>,
     <<"/", "p", "r", "e", "p", "e", "n", "d", " ", "s", "y", "s", "t", "e", "m", " ", "a">>,
     <<"/", "p", "r", "e", "p", "e", "n", "d", " ", "q", " ", "a">>,
     <<"/", "c", "l", "e", "a", "r">>,
     <<"/", "c", "l", "e", "a", "r", " ", "x">>,
     <<"/", "r", "e", "p", "l", "a", "c", "e", "f", "r", "o", "m", " ", "F">>,
     <<"/", "r", "e", "p", "l", "a", "c", "e", "f", "r", "o", "m", " ", "G">>,
     <<"/", "r", "e", "p", "l", "a", "c", "e", "f", "r", "o", "m", " ", "M">>,
     <<"/", "r", "e", "p", "l", "a", "c", "e", "f", "r", "o", "m">>,
     <<"/", "a", "p", "p", "e", "n", "d", "f", "r", "o", "m", " ", "F">>,
     <<"/", "a", "p", "p", "e", "n", "d", "f", "r", "o", "m", " ", "G">>,
     <<"/", "p", "r", "e", "p", "e", "n", "d", "f", "r", "o", "m", " ", "F">>,
     <<"/", "p", "r", "e", "p", "e", "n", "d", "f", "r", "o", "m", " ", "G">>,
     <<"/", "p", "r", "e", "p", "e", "n", "d", "f", "r", "o", "m", " ", "B">>}

ReadErrors ==
    {[line |-> <<>>, err |-> EOF],
     [line |-> <<>>, err |-> <<"Interrupt">>],
     [line |-> <<"b">>, err |-> <<"Interrupt">>]}

ReadLines(lines) == {[line |-> l, err |-> Nil] : l \in lines}

\* the first k calls of SendContext fail, the k-th with its own error
FailFirst(k, n) ==
    [i \in 1..n |-> IF i <= k THEN <<"network error", ToString(i)>> ELSE Nil]

Streams ==
    {<<Delta(<<"x", "\n">>), Delta(<<"\"", "y">>), DeltaErr(EOF)>>,
     <<Delta(<<"x">>), DeltaErr(<<"unexpected end of stream">>)>>}

\* the calls of SendContext the retry loop can make
Budget(retries) == IF retries < 0 THEN 0 ELSE retries + 1

Nets(retries) ==
    {[attempts |-> FailFirst(k, Budget(retries)), stream |-> st,
      jitter |-> [i \in 1..Budget(retries) |-> 0]] :
        k \in 0..Budget(retries), st \in Streams}

Editors ==
    {[content |-> <<"b", "\n">>, err |-> Nil],
     [content |-> <<"\n">>, err |-> Nil],
     [content |-> <<>>, err |-> <<"text editor failed to run">>]}

(***************************************************************************)
(* The state machine: Init is the state after configure(), each step is    *)
(* one iteration of mainLoop.                                              *)
(***************************************************************************)
NoNet == [attempts |-> <<>>, stream |-> <<>>, jitter |-> <<>>]

NoEditor == [content |-> <<>>, err |-> <<"text editor failed to run">>]

NoStep ==
    [kind |-> "init", line |-> <<>>, net |-> NoNet, before |-> <<>>, calls |-> <<>>,
     writes |-> <<>>, printer |-> <<>>, sleeps |-> 0, models |-> <<>>,
     waits |-> <<>>, ret |-> TRUE,
     plainOnly |-> TRUE, err |-> Nil, received |-> 0, blocked |-> FALSE,
     raw |-> <<>>, files |-> InitialFiles, path |-> <<>>, model |-> DefaultModel]

\* no second App runs beside the session
NoTwin == [context |-> <<>>, fs |-> InitialFiles, exited |-> FALSE, ret |-> TRUE]

\* no exchange is in flight: the channel and its two ends, at rest
StreamIdle ==
    /\ remote = <<>>
    /\ out = [queue |-> <<>>, closed |-> FALSE]
    /\ producer = [pc |-> "none", pending |-> Delta(<<>>), sent |-> <<>>,
                   released |-> 0, closes |-> 0, panicking |-> FALSE,
                   crashed |-> FALSE]
    /\ consumer = [pc |-> "none", collect |-> <<>>, text |-> <<>>, err |-> Nil,
                   printed |-> <<>>]

\* the command line of a session whose start-up is not examined
NoFlags == [ctx |-> <<>>, autosave |-> <<>>, preventLoad |-> FALSE, parsed |-> TRUE]

\* the session as main starts it: flags parsed, files loaded
Configure(autosaves, retries) ==
    /\ fs = InitialFiles
    /\ flags = NoFlags
    /\ \E ctxFlags \in {<<>>, <<PathF>>}, autosave \in autosaves,
          prevent \in BOOLEAN :
          LET r == parseFlags(InitialFiles, ctxFlags, autosave, prevent)
          IN  /\ r.err = Nil
              /\ context = r.context
              /\ autosaveFilePath = autosave
    /\ model = DefaultModel
    /\ forgetful \in BOOLEAN
    /\ slashCommandsDisabled \in BOOLEAN
    /\ maxRetries \in retries
    /\ exited = FALSE
    /\ blocked = FALSE
    /\ last = NoStep

Init ==
    /\ Configure({<<>>, PathP}, {0, MaxRetriesBound})
    /\ twin = NoTwin
    /\ StreamIdle

\* the path appMain takes on what the reader returned
Classify(rd) ==
    IF rd.err # Nil THEN "eof"
    ELSE LET line == TrimSpace(rd.line)
         IN  IF line = <<>> THEN "empty"
             ELSE IF line[1] = "/" /\ ~slashCommandsDisabled
             THEN IF Registered(TrimSpace(Tail(Cut(line, " ").before)))
                  THEN "command" ELSE "unknown"
             ELSE "exchange"

TheApp(net, ed) ==
    [context |-> context, model |-> model, autosaveFilePath |-> autosaveFilePath,
     forgetful |-> forgetful, slashCommandsDisabled |-> slashCommandsDisabled,
     maxRetries |-> maxRetries, fs |-> fs, exited |-> FALSE, exitCode |-> 0,
     printer |-> <<>>, calls |-> <<>>, writes |-> <<>>, sleeps |-> 0,
     models |-> <<>>, received |-> 0, blocked |-> FALSE,
     waits |-> <<>>, waitTime |-> TicksPerSecond, jitter |-> net.jitter,
     attempts |-> net.attempts, stream |-> net.stream, editor |-> ed]

Observed(rd, net, r) ==
    [kind |-> Classify(rd), line |-> TrimSpace(rd.line), net |-> net,
     before |-> context,
     calls |-> r.app.calls, writes |-> r.app.writes, printer |-> r.app.printer,
     sleeps |-> r.app.sleeps, models |-> r.app.models, waits |-> r.app.waits,
     ret |-> r.ret,
     plainOnly |-> last.plainOnly /\ Classify(rd) = "exchange",
     err |-> rd.err, received |-> r.app.received, blocked |-> r.app.blocked,
     raw |-> rd.line, files |-> fs, path |-> autosaveFilePath, model |-> model]

\* the state after appMain returned r
Returned(r, rd, net, maxLen, observe) ==
    /\ Len(r.app.context) <= maxLen
    /\ context' = r.app.context
    /\ model' = r.app.model
    /\ autosaveFilePath' = r.app.autosaveFilePath
    /\ fs' = r.app.fs
    /\ exited' = (r.app.exited \/ ~r.ret)
    /\ blocked' = r.app.blocked
    /\ last' = IF observe THEN Observed(rd, net, r) ELSE NoStep
    /\ UNCHANGED <<forgetful, slashCommandsDisabled, maxRetries, flags>>
    /\ UNCHANGED <<remote, out, producer, consumer>>

\* one call of appMain; maxLen bounds the context, observe says whether the
\* history variable records the call
Step(rd, net, ed, maxLen, observe) ==
    /\ Returned(appMain(TheApp(net, ed), rd), rd, net, maxLen, observe)
    /\ UNCHANGED twin

\* the command name appMain cuts from a line
CommandNameOf(rd) == TrimSpace(Tail(Cut(TrimSpace(rd.line), " ").before))

\* the answers of the service and of the editor matter only to the lines that
\* reach them; the other lines are tried with none
NetsFor(rd) ==
    IF \/ Classify(rd) = "exchange"
       \/ /\ Classify(rd) = "command"
          /\ CommandNameOf(rd) \in {Name_escape, Name_send, Name_ns}
    THEN Nets(Int64(maxRetries))
    ELSE {NoNet}

EditorsFor(rd) ==
    IF Classify(rd) = "command" /\ CommandNameOf(rd) \in {Name_nano, Name_ns}
    THEN Editors
    ELSE {NoEditor}

\* appMain on what the reader returned, when it takes the path `kind`; mainLoop
\* calls it while the session runs
Run(kind, rd, maxLen, observe) ==
    /\ ~blocked
    /\ Classify(rd) = kind
    /\ \E net \in NetsFor(rd), ed \in EditorsFor(rd) :
           Step(rd, net, ed, maxLen, observe)

\* what the reader yields in a session that asks
Lines == ReadLines(IF slashCommandsDisabled THEN BatchLines ELSE AskLines)

ReadlineFails ==
    /\ ~exited
    /\ \E rd \in ReadErrors : Run("eof", rd, MaxCtxLen, TRUE)

EmptyLine ==
    /\ ~exited
    /\ \E rd \in Lines : Run("empty", rd, MaxCtxLen, TRUE)

UnknownCommand ==
    /\ ~exited
    /\ \E rd \in Lines : Run("unknown", rd, MaxCtxLen, TRUE)

Dispatch ==
    /\ ~exited
    /\ \E rd \in Lines : Run("command", rd, MaxCtxLen, TRUE)

Exchange ==
    /\ ~exited
    /\ \E rd \in Lines : Run("exchange", rd, MaxCtxLen, TRUE)

Next == ReadlineFails \/ EmptyLine \/ UnknownCommand \/ Dispatch \/ Exchange

Spec == Init /\ [][Next]_vars

\* the editing session: every command that changes the context; the history
\* variable is not kept
LinesOfEdit == ReadLines(IF slashCommandsDisabled THEN BatchLines ELSE EditLines)

EditEnd ==
    /\ ~exited
    /\ \E rd \in ReadErrors : Run("eof", rd, MaxEditLen, FALSE)

EditEmptyLine ==
    /\ ~exited
    /\ \E rd \in LinesOfEdit : Run("empty", rd, MaxEditLen, FALSE)

EditUnknownCommand ==
    /\ ~exited
    /\ \E rd \in LinesOfEdit : Run("unknown", rd, MaxEditLen, FALSE)

EditDispatch ==
    /\ ~exited
    /\ \E rd \in LinesOfEdit : Run("command", rd, MaxEditLen, FALSE)

EditExchange ==
    /\ ~exited
    /\ \E rd \in LinesOfEdit : Run("exchange", rd, MaxEditLen, FALSE)

NextEdit ==
    EditEnd \/ EditEmptyLine \/ EditUnknownCommand \/ EditDispatch \/ EditExchange

SpecEdit == Init /\ [][NextEdit]_vars

(***************************************************************************)
(* Paired sessions: the session runs with an autosave path no write to     *)
(* which succeeds, and beside it `twin`, an App with no autosave path,     *)
(* is given the same lines and the same answers.                           *)
(***************************************************************************)
PairLines ==
    {<<"b">>,
     <<>>,
     <<"/", "z", "z">>,
     <<"/", "p", "o", "p">>,
     <<"/", "p", "o", "p", " ", "1">>,
     <<"/", "e", "s", "c", "a", "p", "e", " ", "b">>,
     <<"/", "s", "e", "n", "d">>,
     <<"/", "a", "p", "p", "e", "n", "d", " ", "u", "s", "e", "r", " ", "b">>,
     <<"/", "p", "r", "e", "p", "e", "n", "d", " ", "s", "y", "s", "t", "e", "m", " ", "a">>,
     <<"/", "c", "l", "e", "a", "r">>,
     <<"/", "a", "p", "p", "e", "n", "d", "f", "r", "o", "m", " ", "F">>,
     <<"/", "e", "x", "i", "t">>}

LinesOfPair == ReadLines(IF slashCommandsDisabled THEN BatchLines ELSE PairLines)

\* the twin as an App: the flags of the session, no autosave path
TheTwin(net, ed) ==
    [TheApp(net, ed) EXCEPT !.context = twin.context, !.fs = twin.fs,
                            !.autosaveFilePath = <<>>]

\* the twin after its appMain returned r
TwinAfter(r) ==
    [context |-> r.app.context, fs |-> r.app.fs,
     exited |-> (r.app.exited \/ ~r.ret), ret |-> r.ret]

PairStep(rd, net, ed) ==
    /\ Returned(appMain(TheApp(net, ed), rd), rd, net, MaxEditLen, TRUE)
    /\ twin' = TwinAfter(appMain(TheTwin(net, ed), rd))

PairRun(kind, rd) ==
    /\ ~blocked
    /\ Classify(rd) = kind
    /\ \E net \in NetsFor(rd), ed \in EditorsFor(rd) : PairStep(rd, net, ed)

PairEnd ==
    /\ ~exited
    /\ \E rd \in ReadErrors : PairRun("eof", rd)

PairEmptyLine ==
    /\ ~exited
    /\ \E rd \in LinesOfPair : PairRun("empty", rd)

PairUnknownCommand ==
    /\ ~exited
    /\ \E rd \in LinesOfPair : PairRun("unknown", rd)

PairDispatch ==
    /\ ~exited
    /\ \E rd \in LinesOfPair : PairRun("command", rd)

PairExchange ==
    /\ ~exited
    /\ \E rd \in LinesOfPair : PairRun("exchange", rd)

InitPair ==
    /\ Configure({PathB}, {0, MaxRetriesBound})
    /\ twin = [context |-> context, fs |-> fs, exited |-> FALSE, ret |-> TRUE]
    /\ StreamIdle

NextPair ==
    PairEnd \/ PairEmptyLine \/ PairUnknownCommand \/ PairDispatch \/ PairExchange

SpecPair == InitPair /\ [][NextPair]_vars

(***************************************************************************)
(* The retrying session: every line sends the context once, under every    *)
(* retry count from 0 to MaxRetryCount and under one with the top bit set. *)
(***************************************************************************)
RetryLines ==
    {<<"b">>,
     <<"/", "s", "e", "n", "d">>,
     <<"/", "e", "s", "c", "a", "p", "e", " ", "b">>}

LinesOfRetry == ReadLines(IF slashCommandsDisabled THEN BatchLines ELSE RetryLines)

RetryEnd ==
    /\ ~exited
    /\ \E rd \in ReadErrors : Run("eof", rd, MaxEditLen, TRUE)

RetryDispatch ==
    /\ ~exited
    /\ \E rd \in LinesOfRetry : Run("command", rd, MaxEditLen, TRUE)

RetryExchange ==
    /\ ~exited
    /\ \E rd \in LinesOfRetry : Run("exchange", rd, MaxEditLen, TRUE)

InitRetry ==
    /\ Configure({<<>>}, (0..MaxRetryCount) \cup {SignBit})
    /\ twin = NoTwin
    /\ StreamIdle

NextRetry == RetryEnd \/ RetryDispatch \/ RetryExchange

SpecRetry == InitRetry /\ [][NextRetry]_vars

(***************************************************************************)
(* A session of the commands that take no argument or one free text:       *)
(* send, clear, print, help, escape and exit, with and without arguments.  *)
(***************************************************************************)
ArgLines ==
    {<<"b">>,
     <<"/", "s", "e", "n", "d">>,
     <<"/", "s", "e", "n", "d", " ", "x">>,
     <<"/", "c", "l", "e", "a", "r">>,
     <<"/", "c", "l", "e", "a", "r", " ", "x">>,
     <<"/", "p", "r", "i", "n", "t">>,
     <<"/", "p", "r", "i", "n", "t", " ", "x">>,
     <<"/", "h", "e", "l", "p">>,
     <<"/", "h", "e", "l", "p", " ", "x">>,
     <<"/", "e", "s", "c", "a", "p", "e">>,
     <<"/", "e", "s", "c", "a", "p", "e", " ", "/", "p", "o", "p">>,
     <<"/", "e", "s", "c", "a", "p", "e", " ", "b">>,
     <<"/", "e", "x", "i", "t">>,
     <<"/", "e", "x", "i", "t", " ", "x">>}

LinesOfArgs == ReadLines(IF slashCommandsDisabled THEN BatchLines ELSE ArgLines)

ArgsEnd ==
    /\ ~exited
    /\ \E rd \in ReadErrors : Run("eof", rd, MaxEditLen, TRUE)

ArgsEmptyLine ==
    /\ ~exited
    /\ \E rd \in LinesOfArgs : Run("empty", rd, MaxEditLen, TRUE)

ArgsDispatch ==
    /\ ~exited
    /\ \E rd \in LinesOfArgs : Run("command", rd, MaxEditLen, TRUE)

ArgsExchange ==
    /\ ~exited
    /\ \E rd \in LinesOfArgs : Run("exchange", rd, MaxEditLen, TRUE)

InitArgs ==
    /\ Configure({<<>>, PathP}, {MaxRetriesBound})
    /\ twin = NoTwin
    /\ StreamIdle

NextArgs == ArgsEnd \/ ArgsEmptyLine \/ ArgsDispatch \/ ArgsExchange

SpecArgs == InitArgs /\ [][NextArgs]_vars

(***************************************************************************)
(* A session of the commands that name a file: autosave and the three      *)
(* loads, with plain lines and clear to change Context in between.         *)
(***************************************************************************)
LoadLines ==
    {<<"b">>,
     <<"/", "c", "l", "e", "a", "r">>,
     <<"/", "a", "u", "t", "o", "s", "a", "v", "e">>,
     <<"/", "a", "u", "t", "o", "s", "a", "v", "e", " ", "P">>,
     <<"/", "a", "u", "t", "o", "s", "a", "v", "e", " ", "B">>,
     <<"/", "r", "e", "p", "l", "a", "c", "e", "f", "r", "o", "m">>,
     <<"/", "r", "e", "p", "l", "a", "c", "e", "f", "r", "o", "m", " ", "F">>,
     <<"/", "r", "e", "p", "l", "a", "c", "e", "f", "r", "o", "m", " ", "G">>,
     <<"/", "r", "e", "p", "l", "a", "c", "e", "f", "r", "o", "m", " ", "M">>,
     <<"/", "r", "e", "p", "l", "a", "c", "e", "f", "r", "o", "m", " ", "P">>,
     <<"/", "a", "p", "p", "e", "n", "d", "f", "r", "o", "m">>,
     <<"/", "a", "p", "p", "e", "n", "d", "f", "r", "o", "m", " ", "F">>,
     <<"/", "a", "p", "p", "e", "n", "d", "f", "r", "o", "m", " ", "G">>,
     <<"/", "a", "p", "p", "e", "n", "d", "f", "r", "o", "m", " ", "P">>,
     <<"/", "p", "r", "e", "p", "e", "n", "d", "f", "r", "o", "m", " ", "F">>,
     <<"/", "p", "r", "e", "p", "e", "n", "d", "f", "r", "o", "m", " ", "M">>,
     <<"/", "p", "r", "e", "p", "e", "n", "d", "f", "r", "o", "m", " ", "B">>,
     <<"/", "p", "r", "e", "p", "e", "n", "d", "f", "r", "o", "m", " ", "P">>}

LinesOfLoad == ReadLines(IF slashCommandsDisabled THEN BatchLines ELSE LoadLines)

LoadEnd ==
    /\ ~exited
    /\ \E rd \in ReadErrors : Run("eof", rd, MaxEditLen, TRUE)

LoadEmptyLine ==
    /\ ~exited
    /\ \E rd \in LinesOfLoad : Run("empty", rd, MaxEditLen, TRUE)

LoadDispatch ==
    /\ ~exited
    /\ \E rd \in LinesOfLoad : Run("command", rd, MaxEditLen, TRUE)

LoadExchange ==
    /\ ~exited
    /\ \E rd \in LinesOfLoad : Run("exchange", rd, MaxEditLen, TRUE)

InitLoad ==
    /\ Configure({<<>>, PathP}, {0})
    /\ twin = NoTwin
    /\ StreamIdle

NextLoad == LoadEnd \/ LoadEmptyLine \/ LoadDispatch \/ LoadExchange

SpecLoad == InitLoad /\ [][NextLoad]_vars

(***************************************************************************)
(* A session of the commands that only read Context: help, print and save, *)
(* with plain lines and the editor to put text into Context.               *)
(***************************************************************************)
SaveLines ==
    {<<"b">>,
     <<"/", "n", "a", "n", "o", " ", "u", "s", "e", "r">>,
     <<"/", "s", "a", "v", "e">>,
     <<"/", "s", "a", "v", "e", " ", "P">>,
     <<"/", "s", "a", "v", "e", " ", "B">>,
     <<"/", "p", "r", "i", "n", "t">>,
     <<"/", "p", "r", "i", "n", "t", " ", "x">>,
     <<"/", "h", "e", "l", "p">>,
     <<"/", "h", "e", "l", "p", " ", "x">>}

LinesOfSave == ReadLines(IF slashCommandsDisabled THEN BatchLines ELSE SaveLines)

SaveEnd ==
    /\ ~exited
    /\ \E rd \in ReadErrors : Run("eof", rd, MaxEditLen, TRUE)

SaveEmptyLine ==
    /\ ~exited
    /\ \E rd \in LinesOfSave : Run("empty", rd, MaxEditLen, TRUE)

\* the editor may also leave a file whose bytes are not valid UTF-8
RawEditor == [content |-> <<"c", BadByte, "\n">>, err |-> Nil]

SaveDispatch ==
    /\ ~exited
    /\ ~blocked
    /\ \E rd \in LinesOfSave :
           /\ Classify(rd) = "command"
           /\ \E net \in NetsFor(rd),
                 ed \in IF EditorsFor(rd) = Editors
                        THEN Editors \cup {RawEditor}
                        ELSE {NoEditor} :
                  Step(rd, net, ed, MaxEditLen, TRUE)

SaveExchange ==
    /\ ~exited
    /\ \E rd \in LinesOfSave : Run("exchange", rd, MaxEditLen, TRUE)

InitSave ==
    /\ Configure({<<>>, PathF}, {0})
    /\ twin = NoTwin
    /\ StreamIdle

NextSave == SaveEnd \/ SaveEmptyLine \/ SaveDispatch \/ SaveExchange

SpecSave == InitSave /\ [][NextSave]_vars

(***************************************************************************)
(* A session of the commands that add one message or switch the model.     *)
(***************************************************************************)
MessageLines ==
    {<<"b">>,
     <<"/", "m", "o", "d", "e", "l">>,
     <<"/", "m", "o", "d", "e", "l", " ", "m">>,
     <<"/", "a", "p", "p", "e", "n", "d">>,
     <<"/", "a", "p", "p", "e", "n", "d", " ", "u", "s", "e", "r">>,
     <<"/", "a", "p", "p", "e", "n", "d", " ", "u", "s", "e", "r", " ", " ", "b", " ", "c">>,
     <<"/", "a", "p", "p", "e", "n", "d", " ", "q", " ", "b">>,
     <<"/", "p", "r", "e", "p", "e", "n", "d">>,
     <<"/", "p", "r", "e", "p", "e", "n", "d", " ", "s", "y", "s", "t", "e", "m", " ">>,
     <<"/", "p", "r", "e", "p", "e", "n", "d", " ", "s", "y", "s", "t", "e", "m", " ", "a", " ", "b">>,
     <<"/", "p", "r", "e", "p", "e", "n", "d", " ", "U", "s", "e", "r", " ", "a">>}

LinesOfMessage == ReadLines(IF slashCommandsDisabled THEN BatchLines ELSE MessageLines)

MessageEnd ==
    /\ ~exited
    /\ \E rd \in ReadErrors : Run("eof", rd, MaxEditLen, TRUE)

MessageEmptyLine ==
    /\ ~exited
    /\ \E rd \in LinesOfMessage : Run("empty", rd, MaxEditLen, TRUE)

MessageDispatch ==
    /\ ~exited
    /\ \E rd \in LinesOfMessage : Run("command", rd, MaxEditLen, TRUE)

MessageExchange ==
    /\ ~exited
    /\ \E rd \in LinesOfMessage : Run("exchange", rd, MaxEditLen, TRUE)

InitMessage ==
    /\ Configure({<<>>, PathP}, {0, MaxRetriesBound})
    /\ twin = NoTwin
    /\ StreamIdle

NextMessage == MessageEnd \/ MessageEmptyLine \/ MessageDispatch \/ MessageExchange

SpecMessage == InitMessage /\ [][NextMessage]_vars

(***************************************************************************)
(* One stream, step by step: the goroutine of SendContext receives from    *)
(* the service and sends into the channel `out`, printAndCollectStream     *)
(* receives from it.  The two run concurrently; a send waits while the     *)
(* channel is full, a receive while it is empty and open.                  *)
(***************************************************************************)
ChanCap == 32

\* the session, at rest while the stream runs
SessionVars ==
    <<context, model, autosaveFilePath, forgetful, slashCommandsDisabled,
      maxRetries, fs, exited, blocked, last, twin, flags>>

SessionAtRest ==
    /\ fs = InitialFiles
    /\ context = <<>>
    /\ autosaveFilePath = <<>>
    /\ model = DefaultModel
    /\ forgetful = FALSE
    /\ slashCommandsDisabled = FALSE
    /\ maxRetries = 0
    /\ exited = FALSE
    /\ blocked = FALSE
    /\ last = NoStep
    /\ twin = NoTwin
    /\ flags = NoFlags

\* the service delivers n chunks, then the error `terminal` (io.EOF at the
\* clean end) on every further call of Recv.  A chunk is what the decoder
\* made of one event: the list of its choices, one text each; chunk number
\* `hollow` has an empty list.
Remote(n, terminal, hollow) ==
    [chunks |-> [i \in 1..n |->
                    [choices |-> IF i = hollow THEN <<>> ELSE <<<<ToString(i)>>>>]],
     terminal |-> terminal]

Remotes ==
    {Remote(n, t, h) : n \in 0..MaxFragments,
                       t \in {EOF, <<"connection reset">>},
                       h \in {0, 1, MaxFragments}}

\* stream.Recv()
Recv(r) ==
    IF r.chunks # <<>>
    THEN [response |-> Head(r.chunks), err |-> Nil]
    ELSE [response |-> [choices |-> <<>>], err |-> r.terminal]

\* mutant: the network stream is never released
Deferred_NoRelease == <<"close", "done">>

\* the deferred calls of the goroutine, in the order they run
Deferred == <<"release", "close", "done">>

\* where the goroutine goes after it has sent v: `break` after an error
AfterSend(v) == IF v.err # Nil THEN Head(Deferred) ELSE "recv"

\* the deferred call that follows pc
AfterDeferred(pc) ==
    Deferred[(CHOOSE i \in 1..Len(Deferred) : Deferred[i] = pc) + 1]

\* the goroutine after stream.Recv() has returned v: response.Choices[0]
\* panics on an empty list, and the panic runs the deferred calls
AfterRecv(p, v) ==
    IF v.err # Nil
    THEN [p EXCEPT !.pc = "send", !.pending = DeltaErr(v.err)]
    ELSE IF v.response.choices = <<>>
    THEN [p EXCEPT !.pc = Head(Deferred), !.panicking = TRUE]
    ELSE [p EXCEPT !.pc = "send", !.pending = Delta(v.response.choices[1])]

\* `out <- v` can proceed
CanSend(o) == Len(o.queue) < ChanCap

\* `<-stream` can proceed
CanReceive(o) == o.queue # <<>> \/ o.closed

\* printAndCollectStream after one receive of v; ok is false when the channel
\* is closed and empty
Received(c, v, ok) ==
    IF ~ok \/ ErrorsIs(v.err, EOF)
    THEN [c EXCEPT !.pc = "done", !.printed = Append(@, <<"\n">>), !.text = c.collect]
    ELSE IF v.err # Nil
    THEN [c EXCEPT !.pc = "done", !.text = <<>>, !.err = v.err]
    ELSE [c EXCEPT !.collect = @ \o v.delta, !.printed = Append(@, v.delta)]

InitStream ==
    /\ SessionAtRest
    /\ remote \in Remotes
    /\ out = [queue |-> <<>>, closed |-> FALSE]
    /\ producer = [pc |-> "recv", pending |-> Delta(<<>>), sent |-> <<>>,
                   released |-> 0, closes |-> 0, panicking |-> FALSE,
                   crashed |-> FALSE]
    /\ consumer = [pc |-> "recv", collect |-> <<>>, text |-> <<>>, err |-> Nil,
                   printed |-> <<>>]

ProducerRecv ==
    /\ producer.pc = "recv"
    /\ producer' = AfterRecv(producer, Recv(remote))
    /\ remote' = [remote EXCEPT !.chunks = IF @ = <<>> THEN @ ELSE Tail(@)]
    /\ UNCHANGED <<out, consumer>>
    /\ UNCHANGED SessionVars

ProducerSend ==
    /\ producer.pc = "send"
    /\ CanSend(out)
    /\ out' = [out EXCEPT !.queue = Append(@, producer.pending)]
    /\ producer' = [producer EXCEPT !.pc = AfterSend(producer.pending),
                                    !.sent = Append(@, producer.pending)]
    /\ UNCHANGED <<remote, consumer>>
    /\ UNCHANGED SessionVars

\* defer stream.Close()
ProducerRelease ==
    /\ producer.pc = "release"
    /\ producer' = [producer EXCEPT !.pc = AfterDeferred("release"),
                                    !.released = @ + 1]
    /\ UNCHANGED <<remote, out, consumer>>
    /\ UNCHANGED SessionVars

\* defer close(out)
ProducerClose ==
    /\ producer.pc = "close"
    /\ out' = [out EXCEPT !.closed = TRUE]
    /\ producer' = [producer EXCEPT !.pc = AfterDeferred("close"),
                                    !.closes = @ + 1]
    /\ UNCHANGED <<remote, consumer>>
    /\ UNCHANGED SessionVars

\* a panic nobody recovers ends the process once the deferred calls have run
Fatal ==
    /\ producer.pc = "done"
    /\ producer.panicking
    /\ ~producer.crashed
    /\ producer' = [producer EXCEPT !.crashed = TRUE]
    /\ UNCHANGED <<remote, out, consumer>>
    /\ UNCHANGED SessionVars

ConsumerReceive ==
    /\ consumer.pc = "recv"
    /\ ~producer.crashed
    /\ CanReceive(out)
    /\ IF out.queue = <<>>
       THEN /\ consumer' = Received(consumer, Delta(<<>>), FALSE)
            /\ UNCHANGED out
       ELSE /\ consumer' = Received(consumer, Head(out.queue), TRUE)
            /\ out' = [out EXCEPT !.queue = Tail(@)]
    /\ UNCHANGED <<remote, producer>>
    /\ UNCHANGED SessionVars

NextStream ==
    ProducerRecv \/ ProducerSend \/ ProducerRelease \/ ProducerClose
        \/ Fatal \/ ConsumerReceive

SpecStream == InitStream /\ [][NextStream]_vars

\* the scheduler of Go runs every goroutine that can take a step
SpecStreamLive ==
    /\ InitStream
    /\ [][NextStream]_vars
    /\ WF_vars(ProducerRecv \/ ProducerSend \/ ProducerRelease \/ ProducerClose
                   \/ Fatal)
    /\ WF_vars(ConsumerReceive)

(***************************************************************************)
(* printAndCollectStream as a function of what the channel delivers: the   *)
(* values in `out.queue`, then the closed channel.                         *)
(***************************************************************************)
DrainValues ==
    {Delta(<<"a">>), Delta(<<"b", "c">>), Delta(<<>>), DeltaErr(EOF),
     DeltaErr(<<"read body", "EOF">>), DeltaErr(<<"connection reset">>)}

RECURSIVE SeqsUpTo(_, _)
SeqsUpTo(S, n) ==
    IF n = 0 THEN {<<>>}
    ELSE LET shorter == SeqsUpTo(S, n - 1)
         IN shorter \cup {Append(q, v) : q \in shorter, v \in S}

DrainApp ==
    TheApp(NoNet, [content |-> <<>>, err |-> Nil])

\* what the call returned and printed
Drained(r) ==
    [pc |-> "done", collect |-> r.text, text |-> r.text, err |-> r.err,
     printed |-> [i \in 1..Len(r.app.printer) |-> r.app.printer[i].text]]

InitDrain ==
    /\ SessionAtRest
    /\ remote = <<>>
    /\ out \in {[queue |-> q, closed |-> TRUE] : q \in SeqsUpTo(DrainValues, MaxDrainLen)}
    /\ producer = [pc |-> "done", pending |-> Delta(<<>>), sent |-> out.queue,
                   released |-> 1, closes |-> 1, panicking |-> FALSE,
                   crashed |-> FALSE]
    /\ consumer = [pc |-> "recv", collect |-> <<>>, text |-> <<>>, err |-> Nil,
                   printed |-> <<>>]

Drain ==
    /\ consumer.pc = "recv"
    /\ consumer' = Drained(printAndCollectStream(DrainApp, Chan(out.queue)))
    /\ UNCHANGED <<remote, out, producer>>
    /\ UNCHANGED SessionVars

NextDrain == Drain

SpecDrain == InitDrain /\ [][NextDrain]_vars

(***************************************************************************)
(* A session whose retry loop draws its jitter: rand.Float64() / 3 is a    *)
(* whole number of ticks below a third of a second.                        *)
(***************************************************************************)
Jitters == {0, (TicksPerSecond - 1) \div 3}

\* the failed attempts of a net that a retry follows: each draws a jitter
Draws(n, retries) ==
    Cardinality({i \in 1..retries : n.attempts[i] # Nil})

JittersOf(n, retries) ==
    {d \in [1..Budget(retries) -> Jitters] :
        \A i \in 1..Budget(retries) : i > Draws(n, retries) => d[i] = 0}

BackoffNets(retries) ==
    UNION {{[n EXCEPT !.jitter = j] : j \in JittersOf(n, retries)} :
              n \in Nets(retries)}

BackoffLines == {<<"/", "s", "e", "n", "d">>}

BackoffRun(kind, rd) ==
    /\ ~blocked
    /\ Classify(rd) = kind
    /\ \E net \in IF NetsFor(rd) = {NoNet}
                   THEN {NoNet}
                   ELSE BackoffNets(Int64(maxRetries)) :
           Step(rd, net, NoEditor, MaxEditLen, TRUE)

BackoffEnd ==
    /\ ~exited
    /\ \E rd \in ReadErrors : BackoffRun("eof", rd)

BackoffDispatch ==
    /\ ~exited
    /\ \E rd \in ReadLines(BackoffLines) : BackoffRun("command", rd)

InitBackoff ==
    /\ Configure({<<>>}, 0..MaxBackoffRetries)
    /\ ~slashCommandsDisabled
    /\ twin = NoTwin
    /\ StreamIdle

NextBackoff == BackoffEnd \/ BackoffDispatch

SpecBackoff == InitBackoff /\ [][NextBackoff]_vars

(***************************************************************************)
(* The start of a session: parseFlags on a command line, before the first  *)
(* line is read.  An earlier session may have left its autosave file at P.  *)
(***************************************************************************)
EarlierFiles ==
    [InitialFiles EXCEPT ![PathP] =
        JsonFile(MarshalIndent(<<Message(RoleUser, <<"b">>),
                                 Message(RoleAssistant, <<"x">>)>>))]

CommandLines ==
    [ctx : SeqsUpTo({PathF, PathP, PathG}, MaxCtxFlags),
     autosave : {<<>>, PathP, PathF, PathM, PathB},
     preventLoad : BOOLEAN,
     parsed : {FALSE}]

InitFlags ==
    /\ fs \in {InitialFiles, EarlierFiles}
    /\ flags \in CommandLines
    /\ context = <<>>
    /\ autosaveFilePath = <<>>
    /\ model = DefaultModel
    /\ forgetful = FALSE
    /\ slashCommandsDisabled = FALSE
    /\ maxRetries = 0
    /\ exited = FALSE
    /\ blocked = FALSE
    /\ last = NoStep
    /\ twin = NoTwin
    /\ StreamIdle

\* App.parseFlags; a file that does not load ends the process
ParseFlags ==
    /\ ~exited
    /\ ~flags.parsed
    /\ LET r == parseFlags(fs, flags.ctx, flags.autosave, flags.preventLoad)
       IN  IF r.err # Nil
           THEN exited' = TRUE /\ UNCHANGED <<context, autosaveFilePath>>
           ELSE /\ context' = r.context
                /\ autosaveFilePath' = flags.autosave
                /\ UNCHANGED exited
    /\ flags' = [flags EXCEPT !.parsed = TRUE]
    /\ UNCHANGED <<model, forgetful, slashCommandsDisabled, maxRetries, fs,
                   blocked, last, twin>>
    /\ UNCHANGED <<remote, out, producer, consumer>>

NextFlags == ParseFlags

SpecFlags == InitFlags /\ [][NextFlags]_vars

(***************************************************************************)
(* What the latest call of appMain was given and what it did.              *)
(***************************************************************************)
\* every establishment attempt the retry budget allows fails
EstablishmentFails ==
    \A i \in 1..Len(last.net.attempts) : last.net.attempts[i] # Nil

\* the first terminal value of the stream is an error marker
StreamFails ==
    \E i \in 1..Len(last.net.stream) :
        /\ last.net.stream[i].err \notin {Nil, EOF}
        /\ \A j \in 1..(i - 1) : last.net.stream[j].err = Nil

ExchangeFails == EstablishmentFails \/ StreamFails

RECURSIVE Fragments(_)
Fragments(stream) ==
    IF stream = <<>> \/ Head(stream).err # Nil THEN <<>>
    ELSE Head(stream).delta \o Fragments(Tail(stream))

\* the concatenation of the fragments streamed before the end marker
Response == Fragments(last.net.stream)

Errors == SelectSeq(last.printer, LAMBDA e : e.kind = "error")

Asked == last.before \o <<Message(RoleUser, last.line)>>

Mirror == parseContextFile(fs, autosaveFilePath)

MirrorWritable == autosaveFilePath # <<>> /\ Writable(fs, autosaveFilePath)

\* C1: a failed exchange started by a plain line leaves Context as it was
\* before the line was read, and appMain returns true.
C1_FailedExchangeKeepsContext ==
    (last.kind = "exchange" /\ ExchangeFails) =>
        /\ context = last.before
        /\ last.ret = TRUE
        /\ ~exited

C1_Witness ==
    /\ last.kind = "exchange"
    /\ EstablishmentFails
    /\ maxRetries > 0
    /\ Len(last.calls) = maxRetries + 1
    /\ Len(context) >= 2

\* C2: whenever a command or the exchange path reports an error, Context equals
\* its value from before that operation began.
C2_ErrorLeavesContext ==
    (last.kind \in {"command", "exchange"} /\ Errors # <<>>) =>
        context = last.before

\* C3: with an autosave path configured and writable, after every command or
\* exchange that changed Context the autosave file holds the in-memory Context.
C3_MutationRefreshesMirror ==
    (/\ last.kind \in {"command", "exchange"}
     /\ context # last.before
     /\ MirrorWritable) =>
        Mirror = [messages |-> context, err |-> Nil]

\* C4: a successful exchange in non-forgetful mode sends Context with the user
\* message appended and extends Context by that user message and the assistant
\* message holding the concatenated fragments.
C4_ExchangeAppendsPair ==
    (last.kind = "exchange" /\ ~ExchangeFails /\ ~forgetful) =>
        /\ last.calls # <<>>
        /\ \A i \in 1..Len(last.calls) : last.calls[i] = Asked
        /\ context = Asked \o <<Message(RoleAssistant, Response)>>
        /\ last.ret = TRUE

C4_Witness ==
    /\ last.kind = "exchange"
    /\ ~ExchangeFails
    /\ ~forgetful
    /\ Len(context) = 4
    /\ context[2].Role = RoleAssistant
    /\ Response # <<>>

\* C5: in forgetful mode a successful exchange started by a plain line leaves
\* Context as it was, although the completion client received Context with the
\* user message appended.
C5_ForgetfulKeepsContext ==
    (last.kind = "exchange" /\ ~ExchangeFails /\ forgetful) =>
        /\ context = last.before
        /\ last.calls # <<>>
        /\ \A i \in 1..Len(last.calls) : last.calls[i] = Asked
        /\ last.ret = TRUE

C5_Witness ==
    /\ last.kind = "exchange"
    /\ ~ExchangeFails
    /\ forgetful
    /\ context # <<>>
    /\ last.calls # <<>>

\* C6: every message of Context has a role among system, user and assistant.
C6_RolesValid ==
    \A i \in 1..Len(context) :
        context[i].Role \in {RoleSystem, RoleUser, RoleAssistant}

C6_Witness ==
    /\ Len(context) = MaxEditLen
    /\ {context[i].Role : i \in 1..Len(context)} = {RoleSystem, RoleUser, RoleAssistant}

\* the pop lines with an integer argument
PopLines ==
    {<<<<"/", "p", "o", "p", " ", "1">>, 1>>, <<<<"/", "p", "o", "p", " ", "3">>, 3>>,
     <<<<"/", "p", "o", "p", " ", "0">>, 0>>, <<<<"/", "p", "o", "p", " ", "-", "1">>, 0 - 1>>}

\* C7: popFromContext(n) removes exactly the last n messages when
\* 1 <= n <= len(Context); otherwise it returns an error, leaves Context
\* unchanged and writes no autosave file.
C7_PopFromContext ==
    \A p \in PopLines :
        (last.kind = "command" /\ last.line = p[1]) =>
            IF 1 <= p[2] /\ p[2] <= Len(last.before)
            THEN /\ context = SubSeq(last.before, 1, Len(last.before) - p[2])
                 /\ Errors = <<>>
            ELSE /\ context = last.before
                 /\ Len(Errors) = 1
                 /\ last.writes = <<>>

C7_Witness ==
    /\ last.kind = "command"
    /\ last.line = <<"/", "p", "o", "p", " ", "3">>
    /\ Len(last.before) = 4
    /\ Len(context) = 1
    /\ last.writes # <<>>

\* C8: pop with no argument removes the last two messages, or fails and leaves
\* Context unchanged when it holds fewer than two; pop with an argument that is
\* no base-10 integer fails and leaves Context unchanged.
C8_PopDefaultsToTwo ==
    /\ (last.kind = "command" /\ last.line = <<"/", "p", "o", "p">>) =>
           IF Len(last.before) >= 2
           THEN /\ context = SubSeq(last.before, 1, Len(last.before) - 2)
                /\ Errors = <<>>
           ELSE /\ context = last.before
                /\ Len(Errors) = 1
    /\ (last.kind = "command" /\ last.line = <<"/", "p", "o", "p", " ", "x">>) =>
           /\ context = last.before
           /\ Len(Errors) = 1

C8_Witness ==
    /\ last.kind = "command"
    /\ last.line = <<"/", "p", "o", "p">>
    /\ Len(last.before) = 3
    /\ context = <<Message(RoleSystem, <<"a">>)>>

\* C9: a line whose command name is not registered changes nothing: Context is
\* unchanged, the completion client is not called, no autosave file is written,
\* one unknown-command error is reported and appMain returns true.
C9_UnknownCommand ==
    last.kind = "unknown" =>
        /\ context = last.before
        /\ last.calls = <<>>
        /\ last.writes = <<>>
        /\ Len(last.printer) = 1
        /\ last.printer[1].kind = "error"
        /\ Head(last.printer[1].text) = "unknown command: "
        /\ last.ret = TRUE
        /\ ~exited

C9_Witness ==
    /\ last.kind = "unknown"
    /\ context # <<>>
    /\ autosaveFilePath # <<>>

\* C10: with an autosave path configured and writable, after each successful
\* exchange in a sequence of plain input lines the autosave file parses to
\* the in-memory Context.
C10_MirrorAfterExchange ==
    (/\ last.kind = "exchange"
     /\ last.plainOnly
     /\ ~ExchangeFails
     /\ MirrorWritable) =>
        Mirror = [messages |-> context, err |-> Nil]

C10_Witness ==
    /\ last.kind = "exchange"
    /\ last.plainOnly
    /\ ~ExchangeFails
    /\ MirrorWritable
    /\ Len(context) = 4
    /\ Mirror.messages = context

\* the autosave write failures the latest call reported
WriteFailures ==
    SelectSeq(last.printer,
              LAMBDA e : e.kind = "error" /\ Head(e.text) = "failed to write to file")

\* C11: with an autosave path whose writes always fail, Context and the
\* return value of appMain after every line equal those of the same session
\* run with no autosave path; the failure is only reported.
C11_WriteFailureOnlyReported ==
    /\ context = twin.context
    /\ last.ret = twin.ret
    /\ exited = twin.exited
    /\ fs = twin.fs

C11_Witness ==
    /\ autosaveFilePath = PathB
    /\ WriteFailures # <<>>
    /\ last.kind = "exchange"
    /\ Len(context) = 3
    /\ context = twin.context

\* the latest call of appMain called sendContextAndProcessResponse
Sent == last.kind = "exchange" \/ (last.kind = "command" /\ last.net # NoNet)

\* the establishment attempts the latest call made
Attempts == Len(last.calls)

\* every attempt made failed
AllAttemptsFailed == \A i \in 1..Attempts : last.net.attempts[i] # Nil

\* `part` occurs in `text` as a run of consecutive elements
Contains(text, part) ==
    \E i \in 0..(Len(text) - Len(part)) : SubSeq(text, i + 1, i + Len(part)) = part

\* an error was reported whose text holds `part`
Reported(part) == \E i \in 1..Len(Errors) : Contains(Errors[i].text, part)

\* C12: one call of sendContextAndProcessResponse with retry count R makes at
\* most R+1 establishment attempts, exactly R+1 when every attempt fails,
\* none after the first that succeeds, and exactly one when R = 0.
C12_AttemptsWithinBudget ==
    Sent =>
        /\ Attempts <= maxRetries + 1
        /\ AllAttemptsFailed => Attempts = maxRetries + 1
        /\ \A i \in 1..Attempts : last.net.attempts[i] = Nil => i = Attempts
        /\ maxRetries = 0 => Attempts = 1

\* the same, for the retry counts whose top bit is clear
C12_BelowSignBit == maxRetries < SignBit => C12_AttemptsWithinBudget

\* C13: when every establishment attempt fails, the error reported wraps the
\* error of the last attempt made, and nothing is received from a stream.
C13_LastErrorSurfaced ==
    (Sent /\ Attempts >= 1 /\ AllAttemptsFailed) =>
        /\ Len(Errors) = 1
        /\ Reported(<<"failed to send context", "CreateChatCompletionStream",
                      "network error", ToString(Attempts)>>)
        /\ last.received = 0
        /\ ~last.blocked

C13_Witness ==
    /\ Sent
    /\ Attempts = MaxRetryCount + 1
    /\ AllAttemptsFailed
    /\ last.sleeps = MaxRetryCount
    /\ Reported(<<"network error", ToString(MaxRetryCount + 1)>>)

\* the place of the first terminal value in the stream
FirstTerminal ==
    CHOOSE i \in 1..Len(last.net.stream) :
        /\ last.net.stream[i].err # Nil
        /\ \A j \in 1..(i - 1) : last.net.stream[j].err = Nil

\* C14: once an attempt has succeeded the establishment step is not invoked
\* again in that exchange: an error marker in the stream ends the exchange
\* with that error at once, whatever is left of the retry budget.
C14_NoRetryAfterStream ==
    (Sent /\ Attempts >= 1 /\ ~AllAttemptsFailed) =>
        /\ \A i \in 1..(Attempts - 1) : last.net.attempts[i] # Nil
        /\ last.sleeps = Attempts - 1
        /\ last.received = FirstTerminal
        /\ StreamFails =>
               /\ Len(Errors) = 1
               /\ Reported(<<"stream error">> \o last.net.stream[FirstTerminal].err)

C14_Witness ==
    /\ Sent
    /\ maxRetries = MaxRetryCount
    /\ Attempts = 2
    /\ ~AllAttemptsFailed
    /\ StreamFails
    /\ Reported(<<"stream error">>)

\* the goroutine has left its loop
ProducerLeft == producer.pc \in {"release", "close", "done"}

\* C15: what the goroutine of SendContext puts on the channel is zero or
\* more text fragments followed by exactly one terminal value; nothing is
\* sent after the terminal value, and the channel is closed only after it.
C15_FragmentsThenOneTerminal ==
    LET s == producer.sent IN
        /\ \A i \in 1..(Len(s) - 1) : s[i].err = Nil
        /\ ProducerLeft <=> (s # <<>> /\ s[Len(s)].err # Nil)
        /\ out.closed => producer.pc = "done"
        /\ producer.pc = "done" => out.closed
        /\ \A i \in 1..Len(s) : s[i].err # Nil => s[i].delta = <<>>

\* the same for every stream none of whose chunks has made the goroutine
\* panic
C15_EveryChunkHasAChoice ==
    producer.panicking \/ C15_FragmentsThenOneTerminal

C15_Witness ==
    /\ producer.pc = "done"
    /\ out.closed
    /\ Len(producer.sent) = MaxFragments + 1
    /\ producer.sent[MaxFragments + 1] = DeltaErr(EOF)
    /\ producer.sent[MaxFragments].delta = <<ToString(MaxFragments)>>

\* the channel is closed and no terminal value was ever sent
C15_ClosedWithoutTerminal ==
    /\ out.closed
    /\ \A i \in 1..Len(producer.sent) : producer.sent[i].err = Nil

\* the place of the first value of the channel that carries an error, one
\* past the end when there is none
FirstMarker(s) ==
    IF \E i \in 1..Len(s) : s[i].err # Nil
    THEN CHOOSE i \in 1..Len(s) :
             s[i].err # Nil /\ \A j \in 1..(i - 1) : s[j].err = Nil
    ELSE Len(s) + 1

\* the texts of the first n values, one after the other
RECURSIVE TextsOf(_, _)
TextsOf(s, n) == IF n = 0 THEN <<>> ELSE TextsOf(s, n - 1) \o s[n].delta

\* C16: draining returns the fragment texts received before the end, in
\* arrival order, when the stream ends with the end-of-stream marker or with
\* the closing of the channel; when an error marker arrives first it returns
\* that error and the empty text.
C16_DrainConcatenatesOrFails ==
    consumer.pc = "done" =>
        LET s == out.queue
            k == FirstMarker(s)
        IN  IF k <= Len(s) /\ ~ErrorsIs(s[k].err, EOF)
            THEN consumer.err = s[k].err /\ consumer.text = <<>>
            ELSE consumer.err = Nil /\ consumer.text = TextsOf(s, k - 1)

C16_Witness ==
    /\ consumer.pc = "done"
    /\ out.queue = <<Delta(<<"b", "c">>), Delta(<<"a">>), DeltaErr(<<"connection reset">>)>>
    /\ consumer.err = <<"connection reset">>
    /\ consumer.text = <<>>
    /\ consumer.printed = <<<<"b", "c">>, <<"a">>>>

\* C17: whatever the number of fragments, more than the capacity of the
\* channel included, the drain returns and the goroutine finishes, given
\* that the service eventually ends the stream or fails.
C17_StreamNeverStalls ==
    <>(consumer.pc = "done" /\ producer.pc = "done")

\* the same for every stream none of whose chunks makes the goroutine panic
C17_EveryChunkHasAChoice ==
    <>((consumer.pc = "done" /\ producer.pc = "done") \/ producer.panicking)

\* the process has ended and the drain has not returned
C17_CrashedBeforeReturn ==
    /\ producer.crashed
    /\ consumer.pc = "recv"

C17_Witness ==
    /\ consumer.pc = "done"
    /\ producer.pc = "done"
    /\ Len(producer.sent) > ChanCap + 1
    /\ Len(consumer.collect) = Len(producer.sent) - 1
    /\ out.queue = <<>>

\* C18: the goroutine releases the network stream exactly once and closes
\* the channel exactly once on each way out of its loop; the channel is
\* never closed and the stream never released by anything else.
C18_ReleasedAndClosedOnce ==
    /\ producer.released <= 1
    /\ producer.closes <= 1
    /\ producer.pc = "done" => (producer.released = 1 /\ producer.closes = 1)
    /\ out.closed <=> producer.closes = 1
    /\ ~ProducerLeft => (producer.released = 0 /\ ~out.closed)

C18_Witness ==
    /\ producer.pc = "done"
    /\ ~producer.panicking
    /\ remote.terminal = <<"connection reset">>
    /\ consumer.err = <<"connection reset">>
    /\ producer.released = 1
    /\ producer.closes = 1

\* C19: when the line reader reports the end of input or any other error,
\* appMain returns false and the loop ends; Context is as it was, nothing was
\* sent, nothing printed and nothing written, whatever line came with the error.
C19_ReaderErrorEndsLoop ==
    last.err # Nil =>
        /\ ~last.ret
        /\ exited
        /\ context = last.before
        /\ last.calls = <<>>
        /\ last.printer = <<>>
        /\ last.writes = <<>>
        /\ last.sleeps = 0

C19_Witness ==
    /\ last.err = <<"Interrupt">>
    /\ last.raw = <<"b">>
    /\ context # <<>>
    /\ exited
    /\ autosaveFilePath # <<>>

\* the line as appMain sees it after strings.TrimSpace
Trimmed == TrimSpace(last.raw)

\* Context with the trimmed line appended as a user message
AskedTrimmed == last.before \o <<Message(RoleUser, Trimmed)>>

\* the line went to the service as a user message
SentAsMessage ==
    /\ last.calls # <<>>
    /\ \A i \in 1..Len(last.calls) : last.calls[i] = AskedTrimmed

\* C20: a line read without error is classified after trimming: the empty line
\* does nothing; a line that starts with the slash is dispatched as a command
\* only while commands are enabled, and is then not sent as a message; every
\* other line, a slash line with commands disabled included, is appended as
\* it stands as a user message and starts an exchange.
C20_LineClassified ==
    (last.kind # "init" /\ last.err = Nil) =>
        IF Trimmed = <<>>
        THEN /\ context = last.before
             /\ last.calls = <<>>
             /\ last.printer = <<>>
             /\ last.writes = <<>>
             /\ last.ret
             /\ ~exited
        ELSE IF Trimmed[1] = "/" /\ ~slashCommandsDisabled
        THEN /\ \A i \in 1..Len(last.calls) : last.calls[i] # AskedTrimmed
             /\ ~(/\ Len(context) > Len(last.before)
                  /\ SubSeq(context, 1, Len(last.before) + 1) = AskedTrimmed)
             /\ last.ret
        ELSE /\ SentAsMessage
             /\ last.ret
             /\ ~exited
             /\ (~ExchangeFails /\ ~forgetful) =>
                    SubSeq(context, 1, Len(last.before) + 1) = AskedTrimmed

C20_Witness ==
    /\ slashCommandsDisabled
    /\ last.raw = <<"/", "p", "o", "p">>
    /\ last.before # <<>>
    /\ SentAsMessage
    /\ Len(context) = Len(last.before) + 2
    /\ context[Len(last.before) + 1] = Message(RoleUser, <<"/", "p", "o", "p">>)

\* the name the latest line was dispatched under, and its argument text
Command == TrimSpace(Tail(Cut(last.line, " ").before))

Argument == TrimSpace(Cut(last.line, " ").after)

\* C21 as stated: after every dispatched command line, whether its handler
\* succeeded or returned an error, appMain has returned true and the loop
\* goes on to read the next line.
C21_DispatchReturns ==
    last.kind = "command" => (last.ret /\ ~exited)

\* C21, amended: the same for every dispatched command line but one: the exit
\* command whose argument is empty or an integer ends the process inside its
\* handler; with an argument it cannot parse it reports the error and the
\* loop goes on like after any other command.
C21_DispatchReturnsUnlessExit ==
    last.kind = "command" =>
        IF Command = Name_exit /\ Errors = <<>>
        THEN exited
        ELSE last.ret /\ ~exited

C21_Witness ==
    /\ last.kind = "command"
    /\ Command = Name_exit
    /\ Argument = <<"x">>
    /\ Len(Errors) = 1
    /\ last.ret
    /\ ~exited

C21_ExitEndsProcess ==
    /\ last.kind = "command"
    /\ last.line = <<"/", "e", "x", "i", "t">>
    /\ exited

\* the latest line ran the command `name`
Ran(name) == last.kind = "command" /\ Command = name

\* C22: send and clear with a non-empty argument report an error and do
\* nothing else: Context is unchanged, nothing is sent, no file is written.
C22_StrayArgumentIsError ==
    ((Ran(Name_send) \/ Ran(Name_clear)) /\ Argument # <<>>) =>
        /\ Len(Errors) = 1
        /\ Contains(Errors[1].text, ErrExpectNoArguments)
        /\ context = last.before
        /\ last.calls = <<>>
        /\ last.writes = <<>>
        /\ fs = last.files

C22_Witness ==
    /\ Ran(Name_clear)
    /\ Argument = <<"x">>
    /\ Len(context) = 2
    /\ autosaveFilePath = PathP
    /\ Len(Errors) = 1

\* what the print command shows of a context: role line and content of each
\* message in order
Page(ctx) ==
    [i \in 1..(2 * Len(ctx)) |->
        IF i % 2 = 1
        THEN [kind |-> "info", text |-> <<"[">> \o ctx[(i + 1) \div 2].Role \o <<"]">>]
        ELSE [kind |-> "info", text |-> ctx[i \div 2].Content]]

Warnings == SelectSeq(last.printer, LAMBDA e : e.kind = "warning")

\* C23: print and help with a non-empty argument warn once and then do all
\* they do without one: the whole context, or the entry of every command, is
\* printed; no error is reported and Context is unchanged.
C23_StrayArgumentIsWarning ==
    ((Ran(Name_print) \/ Ran(Name_help)) /\ Argument # <<>>) =>
        /\ Errors = <<>>
        /\ Len(Warnings) = 1
        /\ Head(last.printer).kind = "warning"
        /\ context = last.before
        /\ last.ret
        /\ Ran(Name_print) => Tail(last.printer) = Page(last.before)
        /\ Ran(Name_help) =>
               /\ Len(last.printer) = 1 + Len(CommandNames)
               /\ {last.printer[i].text : i \in 2..Len(last.printer)}
                      = {<<"/">> \o CommandNames[i] : i \in 1..Len(CommandNames)}

C23_Witness ==
    /\ Ran(Name_print)
    /\ Argument = <<"x">>
    /\ Len(last.before) = 2
    /\ Len(last.printer) = 5
    /\ Len(Warnings) = 1

\* C24: clear with no argument empties Context whatever it held and refreshes
\* the autosave file once: a configured file then holds the empty sequence.
C24_ClearEmptiesAndRefreshes ==
    (Ran(Name_clear) /\ Argument = <<>>) =>
        /\ context = <<>>
        /\ last.writes = IF autosaveFilePath = <<>> THEN <<>> ELSE <<autosaveFilePath>>
        /\ MirrorWritable => Mirror = [messages |-> <<>>, err |-> Nil]
        /\ autosaveFilePath = <<>> => fs = last.files

C24_Witness ==
    /\ Ran(Name_clear)
    /\ Argument = <<>>
    /\ Len(last.before) = 3
    /\ autosaveFilePath = PathP
    /\ last.files[PathP] # fs[PathP]
    /\ Mirror = [messages |-> <<>>, err |-> Nil]

\* C25: send with no argument gives the completion client Context as it is;
\* on success Context grows by the assistant message alone, on failure it is
\* unchanged.
C25_SendUsesContextAsIs ==
    (Ran(Name_send) /\ Argument = <<>>) =>
        /\ last.calls # <<>>
        /\ \A i \in 1..Len(last.calls) : last.calls[i] = last.before
        /\ IF ExchangeFails
           THEN context = last.before /\ Len(Errors) = 1
           ELSE context = last.before \o <<Message(RoleAssistant, Response)>>

C25_Witness ==
    /\ Ran(Name_send)
    /\ Argument = <<>>
    /\ ~ExchangeFails
    /\ forgetful
    /\ Len(last.before) = 2
    /\ Len(last.calls) = 2
    /\ context = last.before \o <<Message(RoleAssistant, Response)>>

\* C26: escape appends its argument text as it stands as a user message, the
\* empty text and a text that starts with the slash included, and runs an
\* exchange: the client receives Context with that message, and on success
\* Context grows by that message and the assistant message.
C26_EscapeAppendsVerbatim ==
    Ran(Name_escape) =>
        /\ last.calls # <<>>
        /\ \A i \in 1..Len(last.calls) :
               last.calls[i] = last.before \o <<Message(RoleUser, Argument)>>
        /\ ~ExchangeFails =>
               context = last.before \o <<Message(RoleUser, Argument),
                                          Message(RoleAssistant, Response)>>

C26_Witness ==
    /\ Ran(Name_escape)
    /\ Argument = <<"/", "p", "o", "p">>
    /\ ~ExchangeFails
    /\ Len(last.before) = 1
    /\ context[2] = Message(RoleUser, <<"/", "p", "o", "p">>)
    /\ context[3].Role = RoleAssistant

C26_WitnessEmpty ==
    /\ Ran(Name_escape)
    /\ Argument = <<>>
    /\ ~ExchangeFails
    /\ Len(context) = Len(last.before) + 2

\* C27: autosave sets the path to its argument, the empty one included, and
\* refreshes at once: a non-empty path is written with Context right away and
\* stays set when that write fails; with the empty path nothing is written by
\* the command or by any later line; Context is never changed by the command.
C27_AutosaveSetsPathAndRefreshes ==
    /\ Ran(Name_autosave) =>
           /\ autosaveFilePath = Argument
           /\ context = last.before
           /\ last.ret
           /\ last.writes = IF Argument = <<>> THEN <<>> ELSE <<Argument>>
           /\ IF Argument # <<>> /\ Writable(last.files, Argument)
              THEN Mirror = [messages |-> context, err |-> Nil] /\ Errors = <<>>
              ELSE fs = last.files
           /\ (Argument # <<>> /\ ~Writable(last.files, Argument)) =>
                  Len(WriteFailures) = 1
    /\ (last.kind # "init" /\ autosaveFilePath = <<>>) =>
           (last.writes = <<>> /\ fs = last.files)

C27_Witness ==
    /\ Ran(Name_autosave)
    /\ Argument = PathB
    /\ autosaveFilePath = PathB
    /\ last.path = PathP
    /\ Len(WriteFailures) = 1
    /\ Len(context) = 2

\* a line changed Context after the path had been cleared, and the file that
\* used to be the autosave file is out of date
C27_ClearedPathUnwritten ==
    /\ last.kind = "exchange"
    /\ autosaveFilePath = <<>>
    /\ context # last.before
    /\ fs[PathP].exists
    /\ parseContextFile(fs, PathP).messages # context

\* the latest line ran one of the three load commands
RanLoad == Ran(Name_replacefrom) \/ Ran(Name_appendfrom) \/ Ran(Name_prependfrom)

\* the file named by the argument, as it was before the line
Named == last.files[Argument]

\* the entries of the named file whose role is none of the three
Offending ==
    {i \in 1..Len(Named.records) :
        Unmarshal(Named.records)[i].Role \notin {RoleUser, RoleAssistant, RoleSystem}}

LoadFails ==
    \/ Argument = <<>>
    \/ Argument \notin DOMAIN last.files
    \/ ~Named.exists
    \/ ~Named.wellformed
    \/ Offending # {}

\* C28: the three load commands leave Context unchanged when loading fails:
\* no path, a file that cannot be read, a malformed document, an entry with
\* an invalid role; in the last case the error names the zero-based index of
\* the first such entry.
C28_FailedLoadKeepsContext ==
    (RanLoad /\ LoadFails) =>
        /\ context = last.before
        /\ Len(Errors) = 1
        /\ last.ret
        /\ (Argument # <<>> /\ Named.exists /\ Named.wellformed) =>
               \E i \in Offending :
                   /\ \A j \in Offending : i <= j
                   /\ Contains(Errors[1].text, <<ToString(i - 1)>>)
                   /\ \A j \in Offending \ {i} :
                          ~Contains(Errors[1].text, <<ToString(j - 1)>>)

C28_Witness ==
    /\ Ran(Name_replacefrom)
    /\ Argument = PathG
    /\ Offending = {3, 4}
    /\ Contains(Errors[1].text, <<"2">>)
    /\ Len(context) = 3

\* the messages of the named file
Loaded == Unmarshal(Named.records)

\* C29: a successful load of the file content F into Context C gives F for
\* replacefrom, C followed by F for appendfrom and F followed by C for
\* prependfrom, the messages of each in their order.
C29_LoadPlacesMessages ==
    (RanLoad /\ ~LoadFails) =>
        /\ Errors = <<>>
        /\ Ran(Name_replacefrom) => context = Loaded
        /\ Ran(Name_appendfrom) => context = last.before \o Loaded
        /\ Ran(Name_prependfrom) => context = Loaded \o last.before

C29_Witness ==
    /\ Ran(Name_prependfrom)
    /\ Argument = PathP
    /\ Len(Loaded) = 2
    /\ Loaded[1] # Loaded[2]
    /\ Len(last.before) = 1
    /\ last.before[1] \notin {Loaded[1], Loaded[2]}
    /\ context = Loaded \o last.before

C31_SaveRoundTrip ==
    (Ran(Name_save) /\ Errors = <<>>) =>
        parseContextFile(fs, Argument) = [messages |-> context, err |-> Nil]

\* some content of Context holds a byte that is not valid UTF-8
HoldsBadByte ==
    \E i \in 1..Len(context) :
        \E k \in 1..Len(context[i].Content) : context[i].Content[k] = BadByte

\* the same for every Context whose contents are valid UTF-8
C31_ValidTextRoundTrip ==
    (Ran(Name_save) /\ Errors = <<>> /\ ~HoldsBadByte) =>
        parseContextFile(fs, Argument) = [messages |-> context, err |-> Nil]

C31_ValidTextSaved ==
    /\ Ran(Name_save)
    /\ Errors = <<>>
    /\ ~HoldsBadByte
    /\ Len(context) = 3

\* a saved Context does not come back as it was
C31_SavedTextAltered ==
    /\ Ran(Name_save)
    /\ Errors = <<>>
    /\ HoldsBadByte
    /\ parseContextFile(fs, Argument).err = Nil
    /\ parseContextFile(fs, Argument).messages # context

\* C40: help, print and save never change Context, the model identifier or
\* the autosave path and never call the completion client, whatever their
\* argument and whether they fail or not; save with no path fails and writes
\* no file.
C40_ReadOnlyCommands ==
    (Ran(Name_help) \/ Ran(Name_print) \/ Ran(Name_save)) =>
        /\ context = last.before
        /\ model = last.model
        /\ autosaveFilePath = last.path
        /\ last.calls = <<>>
        /\ last.writes = <<>>
        /\ ~Ran(Name_save) => fs = last.files
        /\ (Ran(Name_save) /\ Argument = <<>>) =>
               (Len(Errors) = 1 /\ fs = last.files)

C40_Witness ==
    /\ Ran(Name_save)
    /\ Argument = <<>>
    /\ autosaveFilePath = PathF
    /\ Len(context) = 3
    /\ Len(Errors) = 1
    /\ fs = last.files

\* the role and the text the arguments of append and prepend name
NamedRole == Cut(Argument, " ").before

NamedText == TrimSpace(Cut(Argument, " ").after)

RoleKnown == NamedRole \in {<<"s", "y", "s", "t", "e", "m">>, <<"u", "s", "e", "r">>,
                            <<"a", "s", "s", "i", "s", "t", "a", "n", "t">>}

\* C32: append and prepend split their argument on its first space. With no
\* argument, or a first token that is not system, user or assistant, they
\* fail and Context is unchanged. Otherwise exactly one message, with that
\* role and the trimmed remainder as content, is added at the back (append)
\* or at the front (prepend), the other messages keep their order, and an
\* empty content is accepted with a warning.
C32_AppendPrependOneMessage ==
    (Ran(Name_append) \/ Ran(Name_prepend)) =>
        IF Argument = <<>> \/ ~RoleKnown
        THEN Len(Errors) = 1 /\ context = last.before
        ELSE /\ Errors = <<>>
             /\ Ran(Name_append) =>
                    context = last.before \o <<[Role |-> NamedRole, Content |-> NamedText]>>
             /\ Ran(Name_prepend) =>
                    context = <<[Role |-> NamedRole, Content |-> NamedText]>> \o last.before
             /\ Len(Warnings) = (IF NamedText = <<>> THEN 1 ELSE 0)

C32_Witness ==
    /\ Ran(Name_append)
    /\ NamedRole = <<"u", "s", "e", "r">>
    /\ NamedText = <<"b", " ", "c">>
    /\ Len(last.before) = 2
    /\ Len(context) = 3

C32_EmptyContentWarned ==
    /\ Ran(Name_prepend)
    /\ RoleKnown
    /\ NamedText = <<>>
    /\ Len(Warnings) = 1
    /\ Len(context) = Len(last.before) + 1

\* C33: the model command changes the model identifier and nothing else:
\* Context, the autosave path and every file are unchanged and no request is
\* sent; with no argument it fails and the identifier is unchanged; every
\* request of a later line names the identifier that was current before it.
C33_ModelCommandOnlySwitches ==
    /\ Ran(Name_model) =>
           /\ context = last.before
           /\ autosaveFilePath = last.path
           /\ fs = last.files
           /\ last.calls = <<>>
           /\ last.writes = <<>>
           /\ IF Argument = <<>>
              THEN Len(Errors) = 1 /\ model = last.model
              ELSE Errors = <<>> /\ model = Argument
    /\ ~Ran(Name_model) => model = last.model
    /\ Len(last.models) = Len(last.calls)
    /\ \A i \in 1..Len(last.models) : last.models[i] = last.model

C33_Witness ==
    /\ last.kind = "exchange"
    /\ last.model = <<"m">>
    /\ Len(last.models) = 2
    /\ context # last.before

C33_Switched ==
    /\ Ran(Name_model)
    /\ Argument = <<"m">>
    /\ last.model = DefaultModel
    /\ model = <<"m">>
    /\ Len(context) = 2

\* the messages of the files at the paths, file after file
RECURSIVE MessagesOf(_)
MessagesOf(paths) ==
    IF paths = <<>> THEN <<>>
    ELSE Unmarshal(fs[Head(paths)].records) \o MessagesOf(Tail(paths))

\* an autosave path is set, a file is there and loading it is not prevented
AutosaveLoaded ==
    flags.autosave # <<>> /\ fs[flags.autosave].exists /\ ~flags.preventLoad

\* C34: when the session starts, Context is the messages of the -ctx files
\* in the order of the flags, followed by the messages of the autosave file
\* when a path is set, the file exists and loading it is not prevented.
C34_StartContext ==
    (flags.parsed /\ ~exited) =>
        /\ autosaveFilePath = flags.autosave
        /\ context = MessagesOf(flags.ctx) \o
                        (IF AutosaveLoaded THEN MessagesOf(<<flags.autosave>>) ELSE <<>>)

C34_Witness ==
    /\ flags.parsed
    /\ ~exited
    /\ flags.ctx = <<PathF, PathP>>
    /\ flags.autosave = PathP
    /\ AutosaveLoaded
    /\ Len(context) = 5
    /\ context[1].Role = RoleSystem
    /\ context[5].Role = RoleAssistant

C34_LoadPrevented ==
    /\ flags.parsed
    /\ ~exited
    /\ flags.ctx = <<PathP, PathF>>
    /\ flags.autosave = PathP
    /\ flags.preventLoad
    /\ Len(context) = 3

\* the latest line was rejected: an unknown command, a command whose handler
\* returned an error, or an exchange that failed
Rejected ==
    \/ last.kind = "unknown"
    \/ last.kind = "exchange" /\ ExchangeFails
    \/ (Ran(Name_escape) \/ Ran(Name_send)) /\ ExchangeFails
    \/ Ran(Name_pop) /\ Argument = <<>> /\ Len(last.before) < 2
    \/ Ran(Name_pop) /\ Argument = <<"1">> /\ Len(last.before) < 1

C35_HandlerErrorReported ==
    /\ Ran(Name_pop)
    /\ Rejected
    /\ Len(last.before) = 1
    /\ Len(Errors) = 1

C35_UnknownReported ==
    /\ last.kind = "unknown"
    /\ Len(Errors) = 1
    /\ Len(context) = 3

\* C36: appendToContext followed by popFromContext(1), as a plain line runs
\* them around an exchange that fails or in forgetful mode, leaves Context as
\* it was, and the autosave file was refreshed exactly twice when a path is
\* set (and never when none is).
C36_AppendThenPopIsNoOp ==
    (last.kind = "exchange" /\ (ExchangeFails \/ forgetful)) =>
        /\ context = last.before
        /\ last.writes = (IF autosaveFilePath = <<>>
                          THEN <<>>
                          ELSE <<autosaveFilePath, autosaveFilePath>>)
        /\ MirrorWritable => Mirror = [messages |-> context, err |-> Nil]

C36_Witness ==
    /\ last.kind = "exchange"
    /\ forgetful
    /\ ~ExchangeFails
    /\ autosaveFilePath = PathP
    /\ Len(last.before) = 2
    /\ context = last.before
    /\ Len(last.writes) = 2

\* C37: forgetful mode does not reach the commands: in a forgetful session a
\* plain line that succeeds leaves Context as it was, while escape that
\* succeeds still adds the user message and the assistant message and send
\* that succeeds still adds the assistant message.
C37_ForgetfulSparesCommands ==
    (forgetful /\ ~ExchangeFails) =>
        /\ last.kind = "exchange" => context = last.before
        /\ Ran(Name_escape) =>
               /\ Len(context) = Len(last.before) + 2
               /\ SubSeq(context, 1, Len(last.before)) = last.before
               /\ context[Len(context) - 1] = [Role |-> RoleUser, Content |-> Argument]
               /\ context[Len(context)] = [Role |-> RoleAssistant, Content |-> Response]
               /\ Errors = <<>>
        /\ (Ran(Name_send) /\ Argument = <<>>) =>
               /\ Len(context) = Len(last.before) + 1
               /\ SubSeq(context, 1, Len(last.before)) = last.before
               /\ context[Len(context)] = [Role |-> RoleAssistant, Content |-> Response]
               /\ Errors = <<>>

C37_Witness ==
    /\ forgetful
    /\ Ran(Name_escape)
    /\ Argument = <<"b">>
    /\ ~ExchangeFails
    /\ last.before = <<>>
    /\ Len(context) = 2
    /\ autosaveFilePath = PathP

C37_ForgetfulSend ==
    /\ forgetful
    /\ Ran(Name_send)
    /\ Argument = <<>>
    /\ ~ExchangeFails
    /\ last.before = <<>>
    /\ Len(context) = 1

C37_ForgetfulLine ==
    /\ forgetful
    /\ last.kind = "exchange"
    /\ ~ExchangeFails
    /\ Len(last.before) = 1
    /\ context = last.before

\* two to the power n
RECURSIVE Pow2(_)
Pow2(n) == IF n = 0 THEN 1 ELSE 2 * Pow2(n - 1)

\* the jitter drawn after the failures before wait number i, in ticks, each
\* doubled once per later failure
RECURSIVE JitterBefore(_, _)
JitterBefore(i, k) ==
    IF k >= i THEN 0
    ELSE Pow2(i - 1 - k) * last.net.jitter[k] + JitterBefore(i, k + 1)

\* C38: the wait before the first retry is one second whatever the jitter;
\* every later wait is at least twice the wait before it; the jitter drawn
\* after a failure is below a third of a second and counts only in the waits
\* after that failure's own: wait number i is the whole seconds of
\* 2^(i-1) plus the jitters of the failures before it, doubled since.
C38_BackoffDoubles ==
    /\ \A i \in 1..Len(last.waits) :
           /\ i = 1 => last.waits[i] = 1
           /\ i > 1 => last.waits[i] >= 2 * last.waits[i - 1]
           /\ last.waits[i] =
                  (Pow2(i - 1) * TicksPerSecond + JitterBefore(i, 1)) \div TicksPerSecond
    /\ \A k \in 1..Len(last.net.jitter) :
           last.net.jitter[k] >= 0 /\ 3 * last.net.jitter[k] < TicksPerSecond

C38_Witness ==
    /\ Sent
    /\ Len(last.waits) = 4
    /\ last.waits[1] = 1
    /\ last.waits[2] = 2
    /\ last.waits[3] = 4
    /\ last.waits[4] > 8
    /\ last.net.jitter[1] > 0

C38_JitterUnseen ==
    /\ Sent
    /\ Len(last.waits) = 4
    /\ last.waits[4] = 8
    /\ last.net.jitter[3] > 0

\* C39: a call that made at least one attempt slept once less than it
\* attempted: once after every failed attempt that another attempt followed,
\* never after the attempt that succeeded or after the last failed one.
C39_SleepsBetweenAttempts ==
    (Sent /\ Attempts >= 1) =>
        /\ Len(last.waits) = Attempts - 1
        /\ last.sleeps = Attempts - 1
        /\ \A i \in 1..(Attempts - 1) : last.net.attempts[i] # Nil

C39_Witness ==
    /\ Sent
    /\ maxRetries = 2
    /\ AllAttemptsFailed
    /\ Attempts = 3
    /\ Len(last.waits) = 2

C39_NoSleepAfterSuccess ==
    /\ Sent
    /\ maxRetries = 2
    /\ ~AllAttemptsFailed
    /\ Attempts = 2
    /\ Len(last.waits) = 1

====
